---- MODULE Spec2Model ----
(***************************************************************************)
(* Model of the multi-device sync core of LIME (backend/sync):            *)
(*   clock.py     HybridLogicalClock, HLCTimestamp                        *)
(*   changelog.py ChangeTracker (after_flush hook, suppress)              *)
(*   protocol.py  SyncProtocol.push / pull / _apply_remote_changes        *)
(*   engine.py    SyncEngine (initialize, sync_now, auto-sync, devices)   *)
(*   cloud.py     SyncCloudClient.upload_file                             *)
(*   vault.py     Vault                                                   *)
(*   encryption.py EncryptionService (chunked file containers)            *)
(*                                                                         *)
(* Twelve specifications share the definitions below:                     *)
(*   SpecClock    one clock under arbitrary physical readings             *)
(*   SpecSync     two devices, local mutations and whole sync cycles      *)
(*   SpecCycle    one engine's sync_now cycle, step by step, with faults  *)
(*   SpecTracker  the change tracker's flag under concurrent sessions     *)
(*   SpecFiles    one engine's push of its tracked files                  *)
(*   SpecVault    two devices' vaults, session timeout, sealed batches    *)
(*   SpecChunk    one chunked container, altered on disk, then read       *)
(*   SpecOrder    the string comparisons of the queries on HLC strings    *)
(*   SpecEngine   the callers of sync_now, the auto-sync loop, the clone  *)
(*   SpecDevices  the sync_devices table under initialize and removal     *)
(*   SpecMesh     three devices on one bucket, whole sync cycles          *)
(*   SpecPush     the cycle of SpecCycle across restarts of the process   *)
(***************************************************************************)
EXTENDS Integers, Sequences, FiniteSets, TLC

VARIABLES
  \* ---- SpecClock: HybridLogicalClock (clock.py) ----
  ck,           \* [last_wall_ms, counter]: the clock's fields
  ckPre,        \* the clock's fields before the last call
  ckOp,         \* "none" | "now" | "receive": the last call
  ckArg,        \* the remote timestamp of the last receive()
  ckRet,        \* the timestamp the last call returned
  ckHiIssued,   \* greatest timestamp returned before the last call
  ckHiRecv,     \* greatest timestamp passed to receive() before the last call
  \* ---- SpecSync: the devices' local stores and the object store ----
  store,        \* store[d][id]: the row of the syncable table on device d
  changelog,    \* changelog[d]: the sync_changelog rows of device d
  hlc,          \* hlc[d]: the fields of device d's HybridLogicalClock
  syncState,    \* syncState[d]: last_pushed_hlc and last_pulled_hlc per peer
  cloud,        \* cloud[d]: the objects under changelog/{d}/
  opsLeft,      \* opsLeft[d]: local mutations device d may still make
  applied,      \* applied[d][p]: ids of p's batches device d has applied
  applyLog,     \* what the last pull did with each remote entry
  \* ---- SpecCycle: one engine's sync_now, step by step ----
  pc,           \* where sync_now stands: "idle", "push", "files", "mark",
                \* "pull", "device", "batch"
  cyc,          \* the locals of push and pull
  sess,         \* the uncommitted state of the cycle's database session
  obs,          \* what the current and the previous cycle did
  faultsLeft,   \* faults that may still be injected
  \* ---- SpecTracker: ChangeTracker under concurrent sessions ----
  suppressed,   \* ChangeTracker._suppressed
  dbLock,       \* the thread whose session holds SQLite's write lock
  thr,          \* thr[t]: the thread's position and its session
  txLog,        \* the committed transactions: their writes and entries
  tkClock,      \* the fields of the tracker's clock
  runsLeft,     \* runsLeft[t]: pulls or transactions t may still start
  \* ---- SpecFiles: tracked files, their manifests and files/ objects ----
  disk,         \* disk[f]: the contents of the file at path f, or NoFile
  manifest,     \* manifest[f]: the sync_file_manifest row of path f
  fileStore,    \* fileStore[h]: the object files/{h}.enc and its PUTs
  fobs,         \* what the current push did with the pending manifests
  editsLeft,    \* writes to tracked files that may still happen
  \* ---- SpecVault: the vaults of two devices (vault.py) ----
  vfile,        \* vfile[d]: the contents of vault.json on device d
  vsess,        \* vsess[d]: _session_key, _key_id, _unlocked_at
  vnow,         \* time.monotonic()
  vlock,        \* vlock[d]: the call that holds Vault._op_lock
  vcall,        \* the last call: its arguments, outcome and prior state
  sealed,       \* the batches device "A" has encrypted and uploaded
  saltsLeft,    \* random salts and key ids that may still be drawn
  \* ---- SpecChunk: one chunked file container (encryption.py) ----
  cfPlain,      \* the chunks of the plaintext file
  cfBox,        \* the container: its sealed chunks and its sentinel
  cfDst,        \* what decrypt_file left: outcome and destination file
  cfStage,      \* "off", "plain", "sealed", "altered", "read"
  \* ---- SpecOrder: two timestamps and a comparison of their strings ----
  ordA,         \* the timestamp on the left of the comparison
  ordB,         \* the timestamp on the right: a watermark, cursor, remote
  ordUse,       \* "none" | "push" | "pull" | "conflict": the query made
  ordSel,       \* whether the query selected the left timestamp
  \* ---- SpecEngine: the callers of sync_now and initial_clone ----
  epc,          \* epc[t]: where task t stands
  elock,        \* _sync_lock: "free" or the task that holds it
  eonline,      \* SyncEngine._online
  eunlocked,    \* vault.is_unlocked
  ecancel,      \* stop_auto_sync has cancelled the loop's task
  eobs,         \* what the auto-sync loop did at its last wake-ups
  eleft,        \* wake-ups, calls and vault changes that may still happen
  \* ---- SpecDevices: the sync_devices table of one local store ----
  drows,        \* the Device rows: [id, is_current, synced]
  dinit,        \* SyncEngine._initialized
  ddev,         \* SyncEngine._device_id
  dthr,         \* dthr[t]: where thread t stands in initialize()
  dcloud,       \* the device ids with changelog objects in the bucket
  dcall,        \* the last remove_device: id, answer, state before and after
  dleft         \* ids to draw and calls that may still happen

clockVars == <<ck, ckPre, ckOp, ckArg, ckRet, ckHiIssued, ckHiRecv>>

syncVars == <<store, changelog, hlc, syncState, cloud, opsLeft, applied, applyLog>>

cycleVars == <<pc, cyc, sess, obs, faultsLeft>>

trackerVars == <<suppressed, dbLock, thr, txLog, tkClock, runsLeft>>

fileVars == <<disk, manifest, fileStore, fobs, editsLeft>>

vaultVars == <<vfile, vsess, vnow, vlock, vcall, sealed, saltsLeft>>

chunkVars == <<cfPlain, cfBox, cfDst, cfStage>>

orderVars == <<ordA, ordB, ordUse, ordSel>>

\* the variables of the specifications after SpecChunk
engVars == <<epc, elock, eonline, eunlocked, ecancel, eobs, eleft>>

devVars == <<drows, dinit, ddev, dthr, dcloud, dcall, dleft>>

lateVars == <<orderVars, engVars, devVars>>

restVars == <<fileVars, vaultVars, chunkVars, lateVars>>

vars == <<clockVars, syncVars, cycleVars, trackerVars, restVars>>

(***************************************************************************)
(* Bounds                                                                  *)
(***************************************************************************)
\* physical readings and remote wall_ms values range over 1..MaxWall
MaxWall == 3
\* remote counters range over 0..MaxRemoteCounter
MaxRemoteCounter == 2
\* now()/receive() are not called once the counter has reached MaxCounter
MaxCounter == 4
\* SpecSync: local mutations per device
MaxLocalOps == 2
\* SpecSync: physical readings of the devices range over 1..MaxSyncWall
MaxSyncWall == 2
\* SpecCycle: local mutations of the two devices together
MaxCycleOps == 3
\* SpecCycle: injected faults (upload, commit and decryption errors)
MaxFaults == 1
\* SpecTracker: batches of one pull, and row writes of one transaction
MaxPullBatches == 2
MaxTxWrites == 2
\* SpecTracker: transactions of the writer thread
MaxWriterTxs == 1
\* SpecFiles: file contents range over 1..MaxContents
MaxContents == 2
\* SpecFiles: writes to tracked files, failing uploads, local row writes
MaxFileEdits == 2
MaxFileFaults == 1
MaxFileRowOps == 1
\* SpecVault: random salts and key ids drawn, ticks of the monotonic
\* clock, and the session timeout in ticks (the source's default is 30
\* minutes)
MaxSalts == 3
MaxTicks == 2
SessionTimeout == 1
\* SpecChunk: chunks of a file, and the values a chunk takes
MaxChunks == 3
MaxChunkValue == 2
\* SpecOrder: wall_ms values range over 1..MaxOrderWall (one digit, as the
\* wall_ms of one era all have the same number of digits)
MaxOrderWall == 2
\* SpecEngine: wake-ups of the auto-sync loop, calls of each other caller,
\* and changes of the vault's state
MaxEngTicks == 2
MaxEngCalls == 2
MaxEngFlips == 1
\* SpecMesh: local writes of the two writing devices together
MaxMeshOps == 3
\* SpecDevices: uuids drawn for Device rows, and calls of remove_device,
\* push and pull together
MaxDeviceIds == 2
MaxDevCalls == 3

(***************************************************************************)
(* Program constants                                                       *)
(***************************************************************************)
\* protocol.py MAX_BATCH_SIZE is 500; scaled to 2 so that a push of a few
\* entries spans several batches
MAX_BATCH_SIZE == 2

(***************************************************************************)
(* Strings.  A string is a sequence of character codes; the comparisons   *)
(* the code makes on str values (Python <, SQL >, sorted()) are           *)
(* lexicographic on these sequences.                                      *)
(***************************************************************************)
RECURSIVE StrLt(_, _)
StrLt(s, t) ==
  IF t = <<>> THEN FALSE
  ELSE IF s = <<>> THEN TRUE
  ELSE IF Head(s) # Head(t) THEN Head(s) < Head(t)
  ELSE StrLt(Tail(s), Tail(t))

StrGt(s, t) == StrLt(t, s)

StrGe(s, t) == ~StrLt(s, t)

\* device ids (node ids); the code uses uuid4 strings
NodeChars == [A |-> <<65>>, B |-> <<66>>, C |-> <<67>>]

NodeIds == DOMAIN NodeChars

(***************************************************************************)
(* clock.py: HLCTimestamp                                                  *)
(***************************************************************************)
HLCTimestamp(w, c, n) == [wall_ms |-> w, counter |-> c, node_id |-> n]

\* no timestamp yet: below every timestamp a clock or a peer produces
NoTs == HLCTimestamp(-1, -1, "A")

\* HLCTimestamp.__gt__
HlcGt(a, b) ==
  IF a.wall_ms # b.wall_ms THEN a.wall_ms > b.wall_ms
  ELSE IF a.counter # b.counter THEN a.counter > b.counter
  ELSE StrGt(NodeChars[a.node_id], NodeChars[b.node_id])

\* HLCTimestamp.__ge__
HlcGe(a, b) == a = b \/ HlcGt(a, b)

HlcMax(a, b) == IF HlcGt(b, a) THEN b ELSE a

(***************************************************************************)
(* clock.py: HybridLogicalClock                                            *)
(***************************************************************************)
ClockInit == [last_wall_ms |-> 0, counter |-> 0]

\* a plausible slip: the stalled-clock branch forgets to bump the counter
ClockNowNoBump(c, phys) ==
  IF phys > c.last_wall_ms
    THEN [last_wall_ms |-> phys, counter |-> 0]
    ELSE c

\* HybridLogicalClock.now: the fields after the call
ClockNow(c, phys) ==
  IF phys > c.last_wall_ms
    THEN [last_wall_ms |-> phys, counter |-> 0]
    ELSE [c EXCEPT !.counter = @ + 1]

Max2(a, b) == IF a >= b THEN a ELSE b

\* a plausible slip: the equal-wall branch ignores the remote counter
ClockReceiveNoMax(c, remote, phys) ==
  IF phys > c.last_wall_ms /\ phys > remote.wall_ms
    THEN [last_wall_ms |-> phys, counter |-> 0]
  ELSE IF remote.wall_ms > c.last_wall_ms
    THEN [last_wall_ms |-> remote.wall_ms, counter |-> remote.counter + 1]
  ELSE [c EXCEPT !.counter = @ + 1]

\* a plausible slip: the remote-ahead branch takes the remote counter as is
ClockReceiveSameCounter(c, remote, phys) ==
  IF phys > c.last_wall_ms /\ phys > remote.wall_ms
    THEN [last_wall_ms |-> phys, counter |-> 0]
  ELSE IF remote.wall_ms > c.last_wall_ms
    THEN [last_wall_ms |-> remote.wall_ms, counter |-> remote.counter]
  ELSE IF c.last_wall_ms = remote.wall_ms
    THEN [c EXCEPT !.counter = Max2(c.counter, remote.counter) + 1]
  ELSE [c EXCEPT !.counter = @ + 1]

\* HybridLogicalClock.receive: the fields after the call
ClockReceive(c, remote, phys) ==
  IF phys > c.last_wall_ms /\ phys > remote.wall_ms
    THEN [last_wall_ms |-> phys, counter |-> 0]
  ELSE IF remote.wall_ms > c.last_wall_ms
    THEN [last_wall_ms |-> remote.wall_ms, counter |-> remote.counter + 1]
  ELSE IF c.last_wall_ms = remote.wall_ms
    THEN [c EXCEPT !.counter = Max2(c.counter, remote.counter) + 1]
  ELSE [c EXCEPT !.counter = @ + 1]

Max3(a, b, c) == Max2(Max2(a, b), c)

\* receive(r) as the design document states it: m is the greatest of the
\* three wall values, and four cases give the counter
SpecReceive(c, remote, phys) ==
  LET m == Max3(c.last_wall_ms, remote.wall_ms, phys)
  IN  [last_wall_ms |-> m,
       counter |->
         IF m = phys /\ m > c.last_wall_ms /\ m > remote.wall_ms THEN 0
         ELSE IF m = c.last_wall_ms /\ m = remote.wall_ms
           THEN Max2(c.counter, remote.counter) + 1
         ELSE IF m = remote.wall_ms THEN remote.counter + 1
         ELSE c.counter + 1]

\* the HLCTimestamp both calls build from the fields
ClockStamp(c, node) == HLCTimestamp(c.last_wall_ms, c.counter, node)

\* the clock of SpecClock as constructed, its history empty
ClockGroupInit ==
  /\ ck = ClockInit
  /\ ckPre = ClockInit
  /\ ckOp = "none"
  /\ ckArg = NoTs
  /\ ckRet = NoTs
  /\ ckHiIssued = NoTs
  /\ ckHiRecv = NoTs

(***************************************************************************)
(* clock.py: HLCTimestamp.__str__, and the batch ids push() builds         *)
(***************************************************************************)
RECURSIVE Digits(_)
\* str(n) for n >= 0
Digits(n) == IF n < 10 THEN <<48 + n>> ELSE Digits(n \div 10) \o <<48 + (n % 10)>>

\* f"{c:04d}"
Pad4(c) ==
  LET d == Digits(c)
  IN  IF Len(d) >= 4 THEN d ELSE [i \in 1..(4 - Len(d)) |-> 48] \o d

\* HLCTimestamp.__str__: "{wall_ms}:{counter:04d}:{node_id}"
HlcStr(ts) ==
  Digits(ts.wall_ms) \o <<58>> \o Pad4(ts.counter) \o <<58>> \o NodeChars[ts.node_id]

\* uuid.uuid4().hex[:8]: eight hex characters, here all the digit r
RandSuffix(r) == [i \in 1..8 |-> 48 + r]

Rands == {1, 2}

\* a batch id: the hlc string of the batch's last entry and the suffix
BatchId(ts, r) == [hlc |-> ts, rand |-> r]

\* f"{batch[-1].hlc_timestamp}_{uuid.uuid4().hex[:8]}"
BatchStr(b) == HlcStr(b.hlc) \o <<95>> \o RandSuffix(b.rand)

\* last_pulled_hlc is NULL
NoBatch == BatchId(NoTs, 0)

(***************************************************************************)
(* The local store: one syncable table ("meetings") with the rows         *)
(* EntityIds and the non-key columns Cols.  A value is named by the       *)
(* timestamp of the local write that produced it, so that every write     *)
(* writes a value of its own; NoTs stands for NULL.                       *)
(***************************************************************************)
Devices == {"A", "B"}

EntityIds == {"m1"}

Cols == {"title", "status"}

NoFields == [c \in {} |-> NoTs]

AbsentRow == [present |-> FALSE, cols |-> [c \in Cols |-> NoTs]]

EmptyStore == [id \in EntityIds |-> AbsentRow]

\* models.py ChangeLogEntry / conflict.ChangeEntry (entity_table is the one
\* table); changed_fields = NoFields stands for None
ChangeEntry(ts, dev, id, op, fields) ==
  [hlc_timestamp |-> ts, device_id |-> dev, entity_id |-> id,
   operation |-> op, changed_fields |-> fields]

(***************************************************************************)
(* changelog.py: ChangeTracker._after_flush for one flushed row            *)
(***************************************************************************)
\* _get_all_fields of a fresh row whose columns all hold the value v
AllFields(v) == [c \in Cols |-> v]

\* _get_changed_fields of an update that sets the columns F to v
ChangedFields(F, v) == [c \in F |-> v]

\* _make_entry: json.dumps(fields) if fields else None
MakeEntry(ts, dev, id, op, fields) == ChangeEntry(ts, dev, id, op, fields)

(***************************************************************************)
(* protocol.py: push                                                       *)
(***************************************************************************)
\* the unpushed query: device_id == self and hlc_timestamp > last_pushed
\* (a string comparison of the stored hlc strings)
Unpushed(log, dev, lastPushed) ==
  { e \in log :
      /\ e.device_id = dev
      /\ (lastPushed = NoTs \/ StrGt(HlcStr(e.hlc_timestamp), HlcStr(lastPushed))) }

\* the entry of S with the least hlc string
MinByHlc(S) ==
  CHOOSE x \in S :
    \A y \in S : ~StrLt(HlcStr(y.hlc_timestamp), HlcStr(x.hlc_timestamp))

RECURSIVE OrderByHlc(_)
OrderFrom(S, m) == <<m>> \o OrderByHlc(S \ {m})

\* order_by(ChangeLogEntry.hlc_timestamp): ascending by the hlc string
OrderByHlc(S) == IF S = {} THEN <<>> ELSE OrderFrom(S, MinByHlc(S))

Min2(a, b) == IF a <= b THEN a ELSE b

\* range(0, len(entries), MAX_BATCH_SIZE): the number of slices
NumBatches(n) == (n + MAX_BATCH_SIZE - 1) \div MAX_BATCH_SIZE

\* a plausible slip: a slice starts one entry early
SliceOverlap(entries, k) ==
  SubSeq(entries, Max2(1, (k - 1) * MAX_BATCH_SIZE),
         Min2(k * MAX_BATCH_SIZE, Len(entries)))

\* entries[i:i + MAX_BATCH_SIZE] for the k-th i
Slice(entries, k) ==
  SubSeq(entries, (k - 1) * MAX_BATCH_SIZE + 1, Min2(k * MAX_BATCH_SIZE, Len(entries)))

\* one uploaded object changelog/{device}/{batch_id}.enc; key names the key
\* it was encrypted with
BatchObject(slice, r, key) ==
  [id |-> BatchId(slice[Len(slice)].hlc_timestamp, r), entries |-> slice, key |-> key]

\* put_object: an object with the same key is replaced
CloudPut(objs, obj) == { o \in objs : o.id # obj.id } \cup {obj}

(***************************************************************************)
(* conflict.py (ConflictResolver.detect_and_resolve) is not among the     *)
(* sources; it is modelled from the specification's section 4.7.          *)
(***************************************************************************)
Resolution(strategy, merged) == [strategy |-> strategy, merged_fields |-> merged]

\* the union of two field maps with disjoint keys
MergeFields(f, g) ==
  [c \in (DOMAIN f) \cup (DOMAIN g) |-> IF c \in DOMAIN g THEN g[c] ELSE f[c]]

DetectAndResolve(local, remote) ==
  IF local.operation = "DELETE" THEN Resolution("DELETE_WINS", NoFields)
  ELSE IF remote.operation = "DELETE" THEN Resolution("REMOTE_WINS", NoFields)
  ELSE IF (DOMAIN local.changed_fields) \cap (DOMAIN remote.changed_fields) = {}
    THEN Resolution("MERGE", MergeFields(local.changed_fields, remote.changed_fields))
  ELSE IF HlcGt(remote.hlc_timestamp, local.hlc_timestamp)
    THEN Resolution("REMOTE_WINS", NoFields)
  ELSE Resolution("LOCAL_WINS", NoFields)

(***************************************************************************)
(* protocol.py: pull                                                       *)
(***************************************************************************)
\* _apply_fields: the key column and unknown columns are skipped
ApplyFields(row, fields) ==
  [row EXCEPT !.cols = [c \in Cols |-> IF c \in DOMAIN fields THEN fields[c] ELSE @[c]]]

\* _apply_entry with an INSERT that adds the bare row and applies the
\* fields only to a row it finds
ApplyEntryBareInsert(rows, entry) ==
  LET id == entry.entity_id
      fresh == [present |-> TRUE, cols |-> [c \in Cols |-> NoTs]]
  IN  IF entry.operation = "DELETE"
        THEN [rows EXCEPT ![id] = AbsentRow]
      ELSE IF rows[id].present
        THEN [rows EXCEPT ![id] = ApplyFields(@, entry.changed_fields)]
      ELSE IF entry.operation = "INSERT"
        THEN [rows EXCEPT ![id] = fresh]
      ELSE rows

\* _apply_entry on the rows of one device
ApplyEntry(rows, entry) ==
  LET id == entry.entity_id
      fresh == [present |-> TRUE, cols |-> [c \in Cols |-> NoTs]]
  IN  IF entry.operation = "DELETE"
        THEN [rows EXCEPT ![id] = AbsentRow]
      ELSE IF entry.operation = "INSERT"
        THEN IF rows[id].present
               THEN [rows EXCEPT ![id] = ApplyFields(@, entry.changed_fields)]
               ELSE [rows EXCEPT ![id] = ApplyFields(fresh, entry.changed_fields)]
      ELSE IF rows[id].present
        THEN [rows EXCEPT ![id] = ApplyFields(@, entry.changed_fields)]
      ELSE rows

\* _find_local_conflict: the local entries of the same entity with
\* hlc_timestamp >= remote.hlc_timestamp (strings); .first() takes the
\* greatest
LocalConflicts(log, dev, remote) ==
  { l \in log :
      /\ l.entity_id = remote.entity_id
      /\ l.device_id = dev
      /\ StrGe(HlcStr(l.hlc_timestamp), HlcStr(remote.hlc_timestamp)) }

FirstDesc(S) ==
  CHOOSE x \in S : \A y \in S : ~StrLt(HlcStr(x.hlc_timestamp), HlcStr(y.hlc_timestamp))

\* the conflict branch of _apply_remote_changes (lines 210-226): no
\* candidate, or the resolver's answer for the first candidate
ResolveAgainst(cands, remote) ==
  IF cands = {} THEN Resolution("NONE", NoFields)
  ELSE DetectAndResolve(FirstDesc(cands), remote)

\* lines 235-236: MERGE rewrites the remote entry's changed_fields
Rewritten(remote, res) ==
  IF res.strategy = "MERGE"
    THEN [remote EXCEPT !.changed_fields = res.merged_fields]
    ELSE remote

\* lines 233-239: LOCAL_WINS skips the remote entry; every other strategy
\* (also DELETE_WINS) applies it
RowsAfter(rows, remote, res) ==
  IF res.strategy = "LOCAL_WINS" THEN rows
  ELSE ApplyEntry(rows, Rewritten(remote, res))

\* the step on st = [rows, clock, trace, ...]; trace records what was done,
\* for the properties
RecordStep(st, remote, clock2, res, rows2) ==
  [st EXCEPT !.rows = rows2,
             !.clock = clock2,
             !.trace = @ \cup
               {[remote |-> remote, strategy |-> res.strategy,
                 merged |-> res.merged_fields,
                 before |-> st.rows, after |-> rows2]}]

ProcessResolved(st, remote, clock2, res) ==
  RecordStep(st, remote, clock2, res, RowsAfter(st.rows, remote, res))

\* the body of the loop of _apply_remote_changes for one remote entry:
\* receive the timestamp, look for a conflict, resolve, apply
ProcessEntry(st, dev, log, remote, phys) ==
  ProcessResolved(st, remote,
                  ClockReceive(st.clock, remote.hlc_timestamp, phys),
                  ResolveAgainst(LocalConflicts(log, dev, remote), remote))

RECURSIVE ApplyRemoteChanges(_, _, _, _, _)
\* _apply_remote_changes: the entries of one batch, in order
ApplyRemoteChanges(st, dev, log, entries, phys) ==
  IF entries = <<>> THEN st
  ELSE ApplyRemoteChanges(ProcessEntry(st, dev, log, Head(entries), phys),
                          dev, log, Tail(entries), phys)

\* the batch object of objs with the least id string
MinBatch(objs) ==
  CHOOSE x \in objs : \A y \in objs : ~StrLt(BatchStr(y.id), BatchStr(x.id))

RECURSIVE SortBatches(_)
BatchesFrom(objs, m) == <<m>> \o SortBatches(objs \ {m})

\* list_changelog_batches: sorted(batches), by the id strings
SortBatches(objs) == IF objs = {} THEN <<>> ELSE BatchesFrom(objs, MinBatch(objs))

\* a plausible slip: the batch at the cursor is listed again
AfterCursorInclusive(objs, cursor) ==
  IF cursor = NoBatch THEN objs
  ELSE { o \in objs : StrGe(BatchStr(o.id), BatchStr(cursor)) }

\* [b for b in batches if b > last_pulled]
AfterCursor(objs, cursor) ==
  IF cursor = NoBatch THEN objs
  ELSE { o \in objs : StrGt(BatchStr(o.id), BatchStr(cursor)) }

\* a plausible slip: the batch is applied and the cursor stays behind
AdvanceRowsOnly(st, id) == [st EXCEPT !.seen = @ \cup {id}]

\* line 164: state.last_pulled_hlc = batch_id
Advance(st, id) == [st EXCEPT !.cursor = id, !.seen = @ \cup {id}]

RECURSIVE PullBatches(_, _, _, _, _)
\* the loop over the batches of one remote device (pull, lines 154-164)
PullBatches(st, dev, log, batches, phys) ==
  IF batches = <<>> THEN st
  ELSE PullBatches(Advance(ApplyRemoteChanges(st, dev, log, Head(batches).entries, phys),
                           Head(batches).id),
                   dev, log, Tail(batches), phys)

MinDevice(ds) ==
  CHOOSE x \in ds : \A y \in ds : ~StrLt(NodeChars[y], NodeChars[x])

RECURSIVE SortDevices(_)
DevicesFrom(ds, m) == <<m>> \o SortDevices(ds \ {m})

\* sorted(devices)
SortDevices(ds) == IF ds = {} THEN <<>> ELSE DevicesFrom(ds, MinDevice(ds))

\* list_devices: the devices that have objects under changelog/
ListDevices(objects) == SortDevices({ d \in DOMAIN objects : objects[d] # {} })

\* the pull's working state for remote device p, from ps = [rows, clock,
\* trace, cursors, seen]
ForDevice(ps, p) ==
  [rows |-> ps.rows, clock |-> ps.clock, trace |-> ps.trace,
   cursor |-> ps.cursors[p], seen |-> ps.seen[p]]

\* and back, once p's batches are done
Merged(ps, p, st) ==
  [rows |-> st.rows, clock |-> st.clock, trace |-> st.trace,
   cursors |-> [ps.cursors EXCEPT ![p] = st.cursor],
   seen |-> [ps.seen EXCEPT ![p] = st.seen]]

\* lines 143-164 for remote device p
PullDevice(ps, dev, log, objs, p, phys) ==
  Merged(ps, p,
         PullBatches(ForDevice(ps, p), dev, log,
                     SortBatches(AfterCursor(objs, ps.cursors[p])), phys))

RECURSIVE PullDevices(_, _, _, _, _, _)
\* the loop over the remote devices (pull, lines 139-169); self is skipped
PullDevices(ps, dev, log, objects, remotes, phys) ==
  IF remotes = <<>> THEN ps
  ELSE IF Head(remotes) = dev
    THEN PullDevices(ps, dev, log, objects, Tail(remotes), phys)
  ELSE PullDevices(PullDevice(ps, dev, log, objects[Head(remotes)], Head(remotes), phys),
                   dev, log, objects, Tail(remotes), phys)

RECURSIVE UploadFirst(_, _, _, _, _)
\* the upload loop of push (lines 72-81) from the k-th slice up to the
\* last-th
UploadFirst(objs, entries, k, last, r) ==
  IF k > last THEN objs
  ELSE UploadFirst(CloudPut(objs, BatchObject(Slice(entries, k), r, "k1")),
                   entries, k + 1, last, r)

\* the whole loop
UploadBatches(objs, entries, k, r) ==
  UploadFirst(objs, entries, k, NumBatches(Len(entries)), r)

(***************************************************************************)
(* SpecSync: the devices mutate their rows locally and run whole sync     *)
(* cycles (sync_now: push, then pull), every step succeeding.  All        *)
(* devices hold the same key.  One physical reading is taken per step.    *)
(***************************************************************************)
SyncReadings == 1..MaxSyncWall

SyncInitWith(ops) ==
  /\ store = [d \in Devices |-> EmptyStore]
  /\ changelog = [d \in Devices |-> {}]
  /\ hlc = [d \in Devices |-> ClockInit]
  /\ syncState = [d \in Devices |->
                    [last_pushed_hlc |-> NoTs,
                     last_pulled_hlc |-> [p \in Devices |-> NoBatch]]]
  /\ cloud = [d \in Devices |-> {}]
  /\ opsLeft = ops
  /\ applied = [d \in Devices |-> [p \in Devices |-> {}]]
  /\ applyLog = {}

SyncGroupInit == SyncInitWith([d \in Devices |-> MaxLocalOps])

\* the fields the tracker records for the operation
FieldsOf(op, F, ts) ==
  IF op = "INSERT" THEN AllFields(ts)
  ELSE IF op = "UPDATE" THEN ChangedFields(F, ts)
  ELSE NoFields

\* the commit of a local transaction: the row write and the tracker's entry
CommitWrite(d, clock2, e) ==
  /\ opsLeft[d] > 0
  /\ opsLeft' = [opsLeft EXCEPT ![d] = @ - 1]
  /\ hlc' = [hlc EXCEPT ![d] = clock2]
  /\ store' = [store EXCEPT ![d] = ApplyEntry(@, e)]
  /\ changelog' = [changelog EXCEPT ![d] = @ \cup {e}]
  /\ UNCHANGED <<syncState, cloud, applied, applyLog>>

StampedWrite(d, id, op, F, clock2, ts) ==
  CommitWrite(d, clock2, MakeEntry(ts, d, id, op, FieldsOf(op, F, ts)))

Ticked(d, id, op, F, clock2) ==
  StampedWrite(d, id, op, F, clock2, ClockStamp(clock2, d))

\* a local transaction on device d: the row write, the tracker's entry
\* stamped by clock.now(), and the commit
LocalWrite(d, id, op, F, phys) == Ticked(d, id, op, F, ClockNow(hlc[d], phys))

\* a new row gets a fresh uuid4 key (models.py _gen_id): no device has
\* inserted a row of that key before
FreshId(id) ==
  \A p \in Devices : \A e \in changelog[p] :
    ~(e.entity_id = id /\ e.operation = "INSERT")

LocalInsertOn(d, R) ==
  \E id \in EntityIds, phys \in R :
    /\ ~store[d][id].present
    /\ FreshId(id)
    /\ LocalWrite(d, id, "INSERT", Cols, phys)

LocalUpdateOn(d, R, Fs) ==
  \E id \in EntityIds, phys \in R, F \in Fs :
    /\ store[d][id].present
    /\ LocalWrite(d, id, "UPDATE", F, phys)

LocalDeleteOn(d, R) ==
  \E id \in EntityIds, phys \in R :
    /\ store[d][id].present
    /\ LocalWrite(d, id, "DELETE", {}, phys)

LocalInsert ==
  /\ \E d \in Devices : LocalInsertOn(d, SyncReadings)
  /\ UNCHANGED <<clockVars, cycleVars, trackerVars, restVars>>

LocalUpdate ==
  /\ \E d \in Devices : LocalUpdateOn(d, SyncReadings, (SUBSET Cols) \ {{}})
  /\ UNCHANGED <<clockVars, cycleVars, trackerVars, restVars>>

LocalDelete ==
  /\ \E d \in Devices : LocalDeleteOn(d, SyncReadings)
  /\ UNCHANGED <<clockVars, cycleVars, trackerVars, restVars>>

SyncRands == {1}

\* the end of sync_now on device d: what push and pull leave committed
SyncDone(d, objects, pushed, ps) ==
  /\ cloud' = objects
  /\ store' = [store EXCEPT ![d] = ps.rows]
  /\ hlc' = [hlc EXCEPT ![d] = ps.clock]
  /\ syncState' = [syncState EXCEPT ![d] =
                     [last_pushed_hlc |-> pushed, last_pulled_hlc |-> ps.cursors]]
  /\ applied' = [applied EXCEPT ![d] = ps.seen]
  /\ applyLog' = ps.trace
  /\ UNCHANGED <<changelog, opsLeft>>

\* pull (lines 132-171) on the objects the push left
SyncPull(d, phys, objects, pushed) ==
  SyncDone(d, objects, pushed,
           PullDevices([rows |-> store[d], clock |-> hlc[d], trace |-> {},
                        cursors |-> syncState[d].last_pulled_hlc,
                        seen |-> applied[d]],
                       d, changelog[d], objects, ListDevices(objects), phys))

\* push (lines 50-98) of the ordered unpushed entries, then pull
SyncPush(d, phys, r, entries) ==
  IF entries = <<>>
    THEN SyncPull(d, phys, cloud, syncState[d].last_pushed_hlc)
    ELSE SyncPull(d, phys,
                  [cloud EXCEPT ![d] = UploadBatches(@, entries, 1, r)],
                  entries[Len(entries)].hlc_timestamp)

(***************************************************************************)
(* The engine whose sync_now is followed step by step, and its peer       *)
(***************************************************************************)
Engine == "A"

Peer == "B"

IdleCyc ==
  [entries |-> <<>>, k |-> 0, devs |-> <<>>, batches |-> <<>>, cur |-> Engine]

NoSess ==
  [mark |-> NoTs, rows |-> EmptyStore,
   cursors |-> [p \in Devices |-> NoBatch],
   seen |-> [p \in Devices |-> {}], trace |-> {}]

InitObs ==
  [startLog |-> {}, startMark |-> NoTs, uploads |-> <<>>, push |-> "none",
   quiet |-> FALSE, dirty |-> FALSE, prevPush |-> "none", prevUploaded |-> {},
   listed |-> {}, failed |-> NoBatch, from |-> Engine]

CycleInitWith(f) ==
  /\ pc = "idle"
  /\ cyc = IdleCyc
  /\ sess = NoSess
  /\ obs = InitObs
  /\ faultsLeft = f

CycleGroupInit == CycleInitWith(0)

(***************************************************************************)
(* The threads that flush sessions of one process: sync_now's pull on the *)
(* event loop, initial_clone's pull on a worker thread (it does not take  *)
(* the sync lock), and a writer.                                          *)
(***************************************************************************)
Pullers == {"sync_now", "initial_clone"}

Writers == {"writer"}

Threads == Pullers \cup Writers

IdleThread ==
  [pc |-> "idle", batches |-> 0, pending |-> <<>>, writes |-> <<>>, emitted |-> {}]

TrackerInitWith(runs) ==
  /\ suppressed = FALSE
  /\ dbLock = "none"
  /\ thr = [t \in Threads |-> IdleThread]
  /\ txLog = {}
  /\ tkClock = ClockInit
  /\ runsLeft = runs

TrackerGroupInit == TrackerInitWith([t \in Threads |-> 0])

(***************************************************************************)
(* File manifests: changelog.py FileChangeTracker, protocol.py            *)
(* _push_files, cloud.py upload_file                                       *)
(***************************************************************************)
\* the tracked files: the knowledge graph snapshot and a memory tier file
Paths == {"kg", "st"}

Contents == 1..MaxContents

\* file_path.exists() is false
NoFile == 0

\* compute_hash: the SHA-256 of the contents, taken as collision-free
Sha256(data) == [sha |-> data]

\* cloud_key is NULL
NoHash == [sha |-> NoFile]

Hashes == { Sha256(c) : c \in Contents }

\* the path has no sync_file_manifest row
NoManifest ==
  [tracked |-> FALSE, content_hash |-> NoHash, cloud_key |-> NoHash,
   synced_at |-> FALSE]

\* check_file: an unchanged hash leaves the row; otherwise the row is
\* created or updated and cloud_key and synced_at are cleared
CheckFile(row, data) ==
  IF data = NoFile THEN row
  ELSE IF row.tracked /\ row.content_hash = Sha256(data) THEN row
  ELSE [tracked |-> TRUE, content_hash |-> Sha256(data), cloud_key |-> NoHash,
        synced_at |-> FALSE]

\* upload_file without the HEAD: every call PUTs
UploadFileAlways(objs, h, data) ==
  [objs EXCEPT ![h] = [data |-> data, puts |-> @.puts + 1]]

\* upload_file: HEAD the key and return if the object exists, else PUT;
\* data names the file contents the object was encrypted from, puts counts
\* the PUTs of the key
UploadFile(objs, h, data) ==
  IF objs[h].data # NoFile THEN objs
  ELSE [objs EXCEPT ![h] = [data |-> data, puts |-> @.puts + 1]]

\* _push_files lines 120-121
Stamp(row) == [row EXCEPT !.cloud_key = row.content_hash, !.synced_at = TRUE]

IdleFobs ==
  [pending |-> {}, due |-> {}, stamped |-> {}, failed |-> {}, touched |-> {}]

FileInitWith(files, edits) ==
  /\ disk = files
  /\ manifest = [f \in Paths |-> NoManifest]
  /\ fileStore = [h \in Hashes |-> [data |-> NoFile, puts |-> 0]]
  /\ fobs = IdleFobs
  /\ editsLeft = edits

(***************************************************************************)
(* The vault: vault.py                                                     *)
(***************************************************************************)
Passphrases == {"P", "Q"}

\* _derive_key: Argon2id of passphrase and salt, taken as collision-free
DeriveKey(pw, salt) == [pw |-> pw, salt |-> salt]

\* _session_key is None
NoKey == DeriveKey("", 0)

\* _create_verification_token: HMAC-SHA256 of a fixed text under the key
VerificationToken(key) == [hmac |-> key]

\* _verify_token
VerifyToken(key, token) == VerificationToken(key) = token

\* vault.json does not exist
NoVaultFile ==
  [initialized |-> FALSE, salt |-> 0, key_id |-> 0,
   verification_token |-> VerificationToken(NoKey), previous_key_id |-> 0]

\* _wipe_session_key
NoSession == [key |-> NoKey, key_id |-> 0, unlocked_at |-> -1]

NoCall ==
  [dev |-> "A", op |-> "none", arg |-> "", result |-> "none",
   file |-> NoVaultFile, session |-> NoSession, at |-> 0]

VaultInitWith(salts) ==
  /\ vfile = [d \in Devices |-> NoVaultFile]
  /\ vsess = [d \in Devices |-> NoSession]
  /\ vnow = 0
  /\ vlock = [d \in Devices |-> "free"]
  /\ vcall = NoCall
  /\ sealed = {}
  /\ saltsLeft = salts

(***************************************************************************)
(* Chunked file containers: encryption.py                                  *)
(***************************************************************************)
\* dst does not exist
NoDst == [outcome |-> "none", written |-> <<>>]

ChunkInitWith(plain, stage) ==
  /\ cfPlain = plain
  /\ cfBox = [chunks |-> <<>>, sentinel |-> FALSE]
  /\ cfDst = NoDst
  /\ cfStage = stage

OrderInitWith(a, b) ==
  /\ ordA = a
  /\ ordB = b
  /\ ordUse = "none"
  /\ ordSel = FALSE

\* the coroutines that call sync_now: the REST trigger, the auto-sync loop
\* and set_online
SyncCallers == {"rest", "auto", "online"}

\* and the worker thread of the initial-clone route
EngTasks == SyncCallers \cup {"clone"}

IdleEobs ==
  [decided |-> FALSE, online |-> FALSE, unlocked |-> FALSE, called |-> FALSE,
   outcome |-> "none", raises |-> 0, retried |-> FALSE]

EngInitWith(autoPc, ticks, calls, flips) ==
  /\ epc = [t \in EngTasks |-> IF t = "auto" THEN autoPc ELSE "idle"]
  /\ elock = "free"
  /\ eonline = TRUE
  /\ eunlocked = TRUE
  /\ ecancel = FALSE
  /\ eobs = IdleEobs
  /\ eleft = [ticks |-> ticks, calls |-> [t \in EngTasks |-> calls], flips |-> flips]

\* the request threads of POST /api/sync/setup, and the start-up
InitThreads == {"startup", "setup1", "setup2"}

\* a peer that has pushed batches
PeerDevice == "peer"

NoDevCall ==
  [id |-> "", status |-> 0, rows |-> {}, cloud |-> {}, rowsAfter |-> {},
   cloudAfter |-> {}]

DevInitWith(rows, startupPc, ids, calls) ==
  /\ drows = rows
  /\ dinit = FALSE
  /\ ddev = ""
  /\ dthr = [t \in InitThreads |-> IF t = "startup" THEN startupPc ELSE "idle"]
  /\ dcloud = {PeerDevice}
  /\ dcall = NoDevCall
  /\ dleft = [ids |-> ids, calls |-> calls]

\* nothing of the specifications after SpecChunk is in use
LateGroupInit ==
  /\ OrderInitWith(NoTs, NoTs)
  /\ EngInitWith("off", 0, 0, 0)
  /\ DevInitWith({}, "off", 0, 0)

\* nothing of the files, the vault and the containers is in use
RestGroupInit ==
  /\ FileInitWith([f \in Paths |-> NoFile], 0)
  /\ VaultInitWith(0)
  /\ ChunkInitWith(<<>>, "off")
  /\ LateGroupInit

\* sync_now on device d: push, then pull
SyncNow ==
  /\ \E d \in Devices, phys \in SyncReadings, r \in SyncRands :
       SyncPush(d, phys, r,
                OrderByHlc(Unpushed(changelog[d], d, syncState[d].last_pushed_hlc)))
  /\ UNCHANGED <<clockVars, cycleVars, trackerVars, restVars>>

InitSync ==
  ClockGroupInit /\ SyncGroupInit /\ CycleGroupInit /\ TrackerGroupInit /\ RestGroupInit

NextSync == LocalInsert \/ LocalUpdate \/ LocalDelete \/ SyncNow

SpecSync == InitSync /\ [][NextSync]_vars

\* every local entry of d is in an uploaded batch
AllPushed(d) ==
  \A e \in changelog[d] : \E o \in cloud[d] :
    \E i \in 1..Len(o.entries) : o.entries[i] = e

\* d has applied every batch p has uploaded
PulledAll(d, p) == \A o \in cloud[p] : o.id \in applied[d][p]

Exchanged ==
  /\ \A d \in Devices : AllPushed(d)
  /\ \A d \in Devices : \A p \in Devices \ {d} : PulledAll(d, p)

\* C1: once both devices have pushed all their entries and pulled all of the
\* other's batches, they hold identical rows.
Convergence ==
  Exchanged => \A d \in Devices, p \in Devices : store[d] = store[p]

\* device d has committed an entry of operation op on row id
HasEntry(d, id, op) ==
  \E e \in changelog[d] : e.entity_id = id /\ e.operation = op

\* C11: when one device has deleted a row and another device has updated
\* it, then once both have pushed everything and pulled all of each other's
\* batches the row is absent on both devices.
DeleteBeatsUpdate ==
  \A d \in Devices, p \in Devices, id \in EntityIds :
    (Exchanged /\ d # p /\ HasEntry(d, id, "DELETE") /\ HasEntry(p, id, "UPDATE"))
      => (~store[d][id].present /\ ~store[p][id].present)

(***************************************************************************)
(* SpecClock: one clock of node "B" called with arbitrary physical        *)
(* readings (stalling, jumping back) and arbitrary remote timestamps of   *)
(* nodes "A" and "C".                                                      *)
(***************************************************************************)
PhysReadings == 1..MaxWall

ClockNode == "B"

RemoteStamps ==
  { HLCTimestamp(w, c, n) : w \in 1..MaxWall, c \in 0..MaxRemoteCounter,
                            n \in NodeIds \ {ClockNode} }

\* what the history variables become when one more call is made
ClockHistory ==
  /\ ckPre' = ck
  /\ ckHiIssued' = HlcMax(ckHiIssued, ckRet)
  /\ ckHiRecv' = IF ckOp = "receive" THEN HlcMax(ckHiRecv, ckArg) ELSE ckHiRecv

CkNow ==
  /\ ck.counter < MaxCounter
  /\ \E phys \in PhysReadings :
       /\ ck' = ClockNow(ck, phys)
       /\ ckRet' = ClockStamp(ClockNow(ck, phys), ClockNode)
  /\ ckOp' = "now"
  /\ ckArg' = NoTs
  /\ ClockHistory
  /\ UNCHANGED <<syncVars, cycleVars, trackerVars, restVars>>

CkReceive ==
  /\ ck.counter < MaxCounter
  /\ \E phys \in PhysReadings, r \in RemoteStamps :
       /\ ck' = ClockReceive(ck, r, phys)
       /\ ckRet' = ClockStamp(ClockReceive(ck, r, phys), ClockNode)
       /\ ckArg' = r
  /\ ckOp' = "receive"
  /\ ClockHistory
  /\ UNCHANGED <<syncVars, cycleVars, trackerVars, restVars>>

InitClock ==
  ClockGroupInit /\ SyncGroupInit /\ CycleGroupInit /\ TrackerGroupInit /\ RestGroupInit

NextClock == CkNow \/ CkReceive

SpecClock == InitClock /\ [][NextClock]_vars

\* C4: every timestamp now() returns is strictly greater than every
\* timestamp this clock returned before and every timestamp passed to
\* receive() before, whatever the physical clock reads.
NowStrictlyIncreases ==
  ckOp = "now" =>
    /\ HlcGt(ckRet, ckHiIssued)
    /\ HlcGt(ckRet, ckHiRecv)

\* C4 witness: now() was called on a stalled clock after the clock had
\* received a remote timestamp ahead of the physical reading.
NowAfterReceiveWitness ==
  /\ ckOp = "now"
  /\ ckHiRecv # NoTs
  /\ ckHiIssued # NoTs
  /\ ckPre.counter > 0
  /\ ck.last_wall_ms = ckPre.last_wall_ms
  /\ ckHiRecv.wall_ms = ck.last_wall_ms

\* C5: receive(r) returns a timestamp greater than r and greater than the
\* greatest timestamp the clock had issued before the call.
ReceiveDominates ==
  ckOp = "receive" =>
    /\ HlcGt(ckRet, ckArg)
    /\ HlcGt(ckRet, ClockStamp(ckPre, ClockNode))
    /\ HlcGt(ckRet, ckHiIssued)

\* C5 witness: receive() of a remote timestamp whose wall_ms equals the
\* clock's and whose counter is ahead of the clock's, physical time behind.
ReceiveEqualWallWitness ==
  /\ ckOp = "receive"
  /\ ckArg.wall_ms = ckPre.last_wall_ms
  /\ ckArg.counter > ckPre.counter
  /\ ckHiIssued # NoTs

\* C27: for every state the clock reaches, every remote timestamp and
\* every physical reading, receive() leaves the fields the four-case rule
\* of the design document gives, last_wall_ms being the greatest of the
\* three wall values.
ReceiveRefinesSpec ==
  \A phys \in PhysReadings, r \in RemoteStamps :
    /\ ClockReceive(ck, r, phys) = SpecReceive(ck, r, phys)
    /\ ClockReceive(ck, r, phys).last_wall_ms =
         Max3(ck.last_wall_ms, r.wall_ms, phys)

\* C27 witness: receive() has run its remote-ahead branch on a clock that
\* had counted up, and the clock it left admits all four branches.
ReceiveRefinesWitness ==
  /\ ckOp = "receive"
  /\ ckArg.wall_ms > ckPre.last_wall_ms
  /\ ckPre.counter > 0
  /\ ck = [last_wall_ms |-> ckArg.wall_ms, counter |-> ckArg.counter + 1]
  /\ ck.last_wall_ms > 1 /\ ck.last_wall_ms < MaxWall

(***************************************************************************)
(* SpecCycle: the engine's device runs sync_now one step at a time        *)
(* (engine.py sync_now, protocol.py push and pull) while its own writers  *)
(* commit and the peer writes and syncs.  An encryption or upload error   *)
(* may end the upload of a batch, the commit of push may fail, and the    *)
(* decryption of a downloaded batch may fail.  The physical clock reads   *)
(* the same value throughout.  File manifests are in SpecFiles.           *)
(***************************************************************************)
CycleReadings == {1}

\* the column sets the updates of this specification write
CycleFields == {{"title"}}

\* the entries of the uploaded objects
UploadedEntries(uploads) ==
  UNION { { uploads[i].entries[j] : j \in 1..Len(uploads[i].entries) } :
          i \in 1..Len(uploads) }

\* the session as get_db opens it
OpenSess(d) ==
  [mark |-> syncState[d].last_pushed_hlc, rows |-> store[d],
   cursors |-> syncState[d].last_pulled_hlc, seen |-> applied[d], trace |-> {}]

\* push line 66: no unpushed entry, push returns at once
PcAfterQuery(entries) == IF entries = <<>> THEN "pull" ELSE "push"

\* sync_now up to push's query (engine.py 154-163, protocol.py 52-67)
StartPush(entries) ==
  /\ pc' = PcAfterQuery(entries)
  /\ cyc' = [IdleCyc EXCEPT !.entries = entries, !.k = 1]
  /\ sess' = OpenSess(Engine)
  /\ obs' = [startLog |-> changelog[Engine],
             startMark |-> syncState[Engine].last_pushed_hlc,
             uploads |-> <<>>,
             push |-> IF entries = <<>> THEN "ok" ELSE "running",
             quiet |-> (obs.push = "ok" /\ ~obs.dirty),
             dirty |-> FALSE,
             prevPush |-> obs.push,
             prevUploaded |-> UploadedEntries(obs.uploads),
             listed |-> {}, failed |-> NoBatch, from |-> Engine]

CycleStart ==
  /\ pc = "idle"
  /\ StartPush(OrderByHlc(Unpushed(changelog[Engine], Engine,
                                   syncState[Engine].last_pushed_hlc)))
  /\ UNCHANGED <<faultsLeft, syncVars, clockVars, trackerVars, restVars>>

\* a plausible slip: the watermark follows every uploaded batch
MarkAfterUploadEager(mark, slice) == slice[Len(slice)].hlc_timestamp

\* the upload loop (lines 72-81) leaves state.last_pushed_hlc alone
MarkAfterUpload(mark, slice) == mark

\* lines 73-81 for one slice
UploadOne(obj) ==
  /\ cloud' = [cloud EXCEPT ![Engine] = CloudPut(@, obj)]
  /\ cyc' = [cyc EXCEPT !.k = @ + 1]
  /\ sess' = [sess EXCEPT !.mark = MarkAfterUpload(@, obj.entries)]
  /\ obs' = [obs EXCEPT !.uploads = Append(@, obj)]
  /\ pc' = IF cyc.k = NumBatches(Len(cyc.entries)) THEN "files" ELSE "push"

PushBatch ==
  /\ pc = "push"
  /\ \E r \in Rands : UploadOne(BatchObject(Slice(cyc.entries, cyc.k), r, "k1"))
  /\ UNCHANGED <<store, changelog, hlc, syncState, opsLeft, applied, applyLog>>
  /\ UNCHANGED <<faultsLeft, clockVars, trackerVars, restVars>>

\* a plausible slip: the error of push is swallowed and the cycle goes on
PcAfterPushRaiseSwallowed == "pull"

\* an exception of push leaves sync_now through get_db (engine.py 160-165)
PcAfterPushRaise == "idle"

\* get_db's except branch: rollback, and the exception goes on
PushRaises ==
  /\ faultsLeft > 0
  /\ faultsLeft' = faultsLeft - 1
  /\ pc' = PcAfterPushRaise
  /\ cyc' = IdleCyc
  /\ sess' = NoSess
  /\ obs' = [obs EXCEPT !.push = "raised"]
  /\ UNCHANGED <<syncVars, clockVars, trackerVars, restVars>>

\* encrypt_bytes raises (the vault locked in mid-push) or the upload raises
PushBatchFails == pc = "push" /\ PushRaises

\* _push_files (lines 100-128): when a file was pushed the session is
\* committed (line 127)
PushFiles ==
  /\ pc = "files"
  /\ pc' = "mark"
  /\ \E pushed \in BOOLEAN :
       syncState' = IF pushed
                      THEN [syncState EXCEPT ![Engine].last_pushed_hlc = sess.mark]
                      ELSE syncState
  /\ UNCHANGED <<store, changelog, hlc, cloud, opsLeft, applied, applyLog>>
  /\ UNCHANGED <<cyc, sess, obs, faultsLeft, clockVars, trackerVars, restVars>>

\* lines 87-88: the watermark and its commit
PushCommit ==
  /\ pc = "mark"
  /\ pc' = "pull"
  /\ sess' = [sess EXCEPT !.mark = cyc.entries[Len(cyc.entries)].hlc_timestamp]
  /\ syncState' = [syncState EXCEPT ![Engine].last_pushed_hlc =
                     cyc.entries[Len(cyc.entries)].hlc_timestamp]
  /\ obs' = [obs EXCEPT !.push = "ok"]
  /\ UNCHANGED <<store, changelog, hlc, cloud, opsLeft, applied, applyLog>>
  /\ UNCHANGED <<cyc, faultsLeft, clockVars, trackerVars, restVars>>

\* the commit of line 88 raises
PushCommitFails == pc = "mark" /\ PushRaises

NotSelf(d) == d # Engine

\* pull lines 134-139: list_devices
PullList ==
  /\ pc = "pull"
  /\ pc' = "device"
  /\ cyc' = [cyc EXCEPT !.devs = SelectSeq(ListDevices(cloud), NotSelf)]
  /\ sess' = [sess EXCEPT !.rows = store[Engine]]
  /\ UNCHANGED <<obs, faultsLeft, syncVars, clockVars, trackerVars, restVars>>

\* lines 143-152 for remote device p: its batches after the cursor
Listed(p, batches) ==
  /\ obs' = [obs EXCEPT !.listed = { batches[i].id : i \in 1..Len(batches) },
                        !.from = p]
  /\ IF batches = <<>>
       THEN /\ pc' = "device"
            /\ cyc' = [cyc EXCEPT !.devs = Tail(@)]
       ELSE /\ pc' = "batch"
            /\ cyc' = [cyc EXCEPT !.cur = p, !.batches = batches]

PullDeviceStart ==
  /\ pc = "device"
  /\ cyc.devs # <<>>
  /\ Listed(Head(cyc.devs),
            SortBatches(AfterCursor(cloud[Head(cyc.devs)],
                                    sess.cursors[Head(cyc.devs)])))
  /\ UNCHANGED <<sess, faultsLeft, syncVars, clockVars, trackerVars, restVars>>

\* lines 154-164 for one batch: what the batch leaves in the session and in
\* the clock
BatchApplied(p, st) ==
  /\ sess' = [sess EXCEPT !.rows = st.rows, !.trace = st.trace,
                          !.cursors[p] = st.cursor, !.seen[p] = st.seen]
  /\ hlc' = [hlc EXCEPT ![Engine] = st.clock]
  /\ IF Tail(cyc.batches) = <<>>
       THEN /\ pc' = "device"
            /\ cyc' = [cyc EXCEPT !.batches = <<>>, !.devs = Tail(@)]
       ELSE /\ pc' = "batch"
            /\ cyc' = [cyc EXCEPT !.batches = Tail(@)]

PullBatch ==
  /\ pc = "batch"
  /\ \E phys \in CycleReadings :
       BatchApplied(cyc.cur,
                    PullBatches([rows |-> sess.rows, clock |-> hlc[Engine],
                                 trace |-> sess.trace,
                                 cursor |-> sess.cursors[cyc.cur],
                                 seen |-> sess.seen[cyc.cur]],
                                Engine, changelog[Engine],
                                <<Head(cyc.batches)>>, phys))
  /\ UNCHANGED <<store, changelog, syncState, cloud, opsLeft, applied, applyLog>>
  /\ UNCHANGED <<obs, faultsLeft, clockVars, trackerVars, restVars>>

\* decrypt_bytes raises on the batch (line 156): nothing catches it before
\* get_db, which rolls the session back
PullBatchFails ==
  /\ pc = "batch"
  /\ faultsLeft > 0
  /\ faultsLeft' = faultsLeft - 1
  /\ pc' = "idle"
  /\ cyc' = IdleCyc
  /\ sess' = NoSess
  /\ obs' = [obs EXCEPT !.failed = Head(cyc.batches).id]
  /\ UNCHANGED <<syncVars, clockVars, trackerVars, restVars>>

\* line 171 and get_db's commit: the session's changes become the store
PullCommit ==
  /\ pc = "device"
  /\ cyc.devs = <<>>
  /\ pc' = "idle"
  /\ cyc' = IdleCyc
  /\ sess' = NoSess
  /\ store' = [store EXCEPT ![Engine] = sess.rows]
  /\ syncState' = [syncState EXCEPT ![Engine].last_pulled_hlc = sess.cursors]
  /\ applied' = [applied EXCEPT ![Engine] = sess.seen]
  /\ applyLog' = sess.trace
  /\ UNCHANGED <<changelog, hlc, cloud, opsLeft>>
  /\ UNCHANGED <<obs, faultsLeft, clockVars, trackerVars, restVars>>

\* a writer of the engine's device commits while the cycle is not pulling
EngineWrite ==
  /\ pc \in {"idle", "push", "files", "mark"}
  /\ \/ LocalInsertOn(Engine, CycleReadings)
     \/ LocalUpdateOn(Engine, CycleReadings, CycleFields)
     \/ LocalDeleteOn(Engine, CycleReadings)
  /\ obs' = [obs EXCEPT !.dirty = TRUE]
  /\ UNCHANGED <<pc, cyc, sess, faultsLeft, clockVars, trackerVars, restVars>>

\* the peer's writers, and the peer's whole sync cycles
PeerWrite ==
  /\ \/ LocalInsertOn(Peer, CycleReadings)
     \/ LocalUpdateOn(Peer, CycleReadings, CycleFields)
     \/ LocalDeleteOn(Peer, CycleReadings)
  /\ UNCHANGED <<cycleVars, clockVars, trackerVars, restVars>>

PeerSync ==
  /\ \E phys \in CycleReadings, r \in SyncRands :
       SyncPush(Peer, phys, r,
                OrderByHlc(Unpushed(changelog[Peer], Peer,
                                    syncState[Peer].last_pushed_hlc)))
  /\ UNCHANGED <<cycleVars, clockVars, trackerVars, restVars>>

InitCycle ==
  /\ ClockGroupInit
  /\ \E ops \in [Devices -> 0..MaxCycleOps] :
       /\ ops[Engine] + ops[Peer] = MaxCycleOps
       /\ SyncInitWith(ops)
  /\ CycleInitWith(MaxFaults)
  /\ TrackerGroupInit
  /\ RestGroupInit

NextCycle ==
  \/ CycleStart \/ PushBatch \/ PushBatchFails \/ PushFiles \/ PushCommit
  \/ PushCommitFails \/ PullList \/ PullDeviceStart \/ PullBatch
  \/ PullBatchFails \/ PullCommit \/ EngineWrite \/ PeerWrite \/ PeerSync

SpecCycle == InitCycle /\ [][NextCycle]_vars

PullPcs == {"pull", "device", "batch"}

InCloud(e, d) ==
  \E o \in cloud[d] : \E i \in 1..Len(o.entries) : o.entries[i] = e

UnpushedAtStart ==
  { e \in obs.startLog : HlcGt(e.hlc_timestamp, obs.startMark) }

\* C7: a push that failed leaves the committed last_pushed_hlc as it was
\* when the push started, and the successful push after it uploads every
\* entry above that watermark, the entries the failed attempt had uploaded
\* among them.
FailedPushKeepsWatermark ==
  /\ obs.push = "raised" =>
       syncState[Engine].last_pushed_hlc = obs.startMark
  /\ (obs.push = "ok" /\ obs.prevPush = "raised") =>
       \A e \in obs.prevUploaded \cup UnpushedAtStart :
         e \in UploadedEntries(obs.uploads)

FailedPushWitness ==
  /\ obs.push = "ok"
  /\ obs.prevPush = "raised"
  /\ obs.prevUploaded # {}

RECURSIVE FlatEntries(_)
FlatEntries(uploads) ==
  IF uploads = <<>> THEN <<>>
  ELSE Head(uploads).entries \o FlatEntries(Tail(uploads))

\* C8: a successful push of n > 0 unpushed entries uploads ceil(n /
\* MAX_BATCH_SIZE) batches of at most MAX_BATCH_SIZE entries, which hold
\* every unpushed entry once, in ascending order, and sets last_pushed_hlc
\* to the greatest; a push right after a successful one, with no local
\* mutation in between, uploads nothing and leaves last_pushed_hlc.
PushUploadsAll ==
  obs.push = "ok" =>
    /\ UnpushedAtStart # {} =>
         /\ Len(obs.uploads) * MAX_BATCH_SIZE >= Cardinality(UnpushedAtStart)
         /\ (Len(obs.uploads) - 1) * MAX_BATCH_SIZE < Cardinality(UnpushedAtStart)
         /\ \A i \in 1..Len(obs.uploads) :
              Len(obs.uploads[i].entries) \in 1..MAX_BATCH_SIZE
         /\ Len(FlatEntries(obs.uploads)) = Cardinality(UnpushedAtStart)
         /\ UploadedEntries(obs.uploads) = UnpushedAtStart
         /\ \A i, j \in 1..Len(FlatEntries(obs.uploads)) :
              i < j => HlcGt(FlatEntries(obs.uploads)[j].hlc_timestamp,
                             FlatEntries(obs.uploads)[i].hlc_timestamp)
         /\ \A e \in UnpushedAtStart :
              HlcGe(syncState[Engine].last_pushed_hlc, e.hlc_timestamp)
         /\ \E e \in UnpushedAtStart :
              syncState[Engine].last_pushed_hlc = e.hlc_timestamp
    /\ obs.quiet =>
         /\ obs.uploads = <<>>
         /\ syncState[Engine].last_pushed_hlc = obs.startMark

PushUploadsAllWitness ==
  /\ obs.push = "ok"
  /\ Len(obs.uploads) = 2
  /\ Len(obs.uploads[2].entries) < Len(obs.uploads[1].entries)

\* C9: when the decryption of one batch fails in a pull, the other batches
\* listed for that device in the pull are applied.
DecryptFailureSkipsOneBatch ==
  (pc = "idle" /\ obs.failed # NoBatch) =>
    \A id \in obs.listed \ {obs.failed} : id \in applied[Engine][obs.from]

\* C10: a remote entry with a conflict candidate is skipped under LOCAL_WINS
\* and DELETE_WINS (the store is left as it was), applied with its own
\* changed_fields under REMOTE_WINS, and applied with the resolver's merged
\* set under MERGE.
StrategyHandling ==
  \A t \in applyLog :
    /\ t.strategy \in {"LOCAL_WINS", "DELETE_WINS"} => t.after = t.before
    /\ t.strategy = "REMOTE_WINS" => t.after = ApplyEntry(t.before, t.remote)
    /\ t.strategy = "MERGE" =>
         t.after = ApplyEntry(t.before,
                              [t.remote EXCEPT !.changed_fields = t.merged])

\* C12: applying a changelog entry a second time changes no row: for every
\* committed entry e and the rows of every device, _apply_entry after
\* _apply_entry of e leaves what the first application left.
ApplyIdempotent ==
  \A d \in Devices, p \in Devices :
    \A e \in changelog[p] :
      ApplyEntry(ApplyEntry(store[d], e), e) = ApplyEntry(store[d], e)

\* C12 witness: a pull has applied a replayed INSERT to a row that the first
\* application had created, and a device holds a DELETE and an UPDATE too.
ApplyIdempotentWitness ==
  /\ \E t \in applyLog :
       /\ t.remote.operation = "INSERT"
       /\ t.strategy = "NONE"
       /\ t.before[t.remote.entity_id].present
       /\ t.after = t.before
  /\ \E d \in Devices : \E e \in changelog[d] : e.operation # "INSERT"

\* the greatest of the batch ids, as strings; NULL when there is none
GreatestBatch(ids) ==
  IF ids = {} THEN NoBatch
  ELSE CHOOSE x \in ids : \A y \in ids : ~StrLt(BatchStr(x), BatchStr(y))

PullCursorMonotone ==
  [][/\ (pc = "batch" /\ cyc' # cyc /\ pc' # "idle") =>
          /\ Head(cyc.batches).id \notin sess.seen[cyc.cur]
          /\ sess.cursors[cyc.cur] # NoBatch =>
               StrGt(BatchStr(Head(cyc.batches).id), BatchStr(sess.cursors[cyc.cur]))
          /\ \A i \in 2..Len(cyc.batches) :
               StrGt(BatchStr(cyc.batches[i].id), BatchStr(Head(cyc.batches).id))
          /\ sess'.cursors[cyc.cur] = Head(cyc.batches).id
          /\ sess'.seen[cyc.cur] = sess.seen[cyc.cur] \cup {Head(cyc.batches).id}
     /\ \A d \in Devices, p \in Devices :
          /\ syncState[d].last_pulled_hlc[p] # NoBatch =>
               StrGe(BatchStr(syncState'[d].last_pulled_hlc[p]),
                     BatchStr(syncState[d].last_pulled_hlc[p]))
          /\ applied[d][p] \subseteq applied'[d][p]
          /\ \A id \in applied'[d][p] \ applied[d][p] :
               syncState[d].last_pulled_hlc[p] # NoBatch =>
                 StrGt(BatchStr(id), BatchStr(syncState[d].last_pulled_hlc[p]))]_vars

\* C26 witness: a second pull of the engine has applied a batch of the peer
\* past the cursor that an earlier pull committed.
PullCursorWitness ==
  /\ pc = "device"
  /\ syncState[Engine].last_pulled_hlc[Peer] # NoBatch
  /\ syncState[Engine].last_pulled_hlc[Peer] \in sess.seen[Peer]
  /\ sess.cursors[Peer] # syncState[Engine].last_pulled_hlc[Peer]
  /\ StrGt(BatchStr(sess.cursors[Peer]),
           BatchStr(syncState[Engine].last_pulled_hlc[Peer]))

(***************************************************************************)
(* SpecTracker: the change tracker's flag under concurrent sessions.  A   *)
(* pull applies the entries of its batches inside suppress() and flushes  *)
(* after each; a writer's session flushes when it commits (autoflush is   *)
(* off).  A flush that writes rows takes SQLite's write lock, which the   *)
(* session keeps until it commits.  A row write is [id, op, cols]; an     *)
(* UPDATE with no column is one that dirties only a collection.           *)
(***************************************************************************)
RowWrite(id, op, F) == [id |-> id, op |-> op, cols |-> F]

\* the writes a transaction may make to the row
LocalWrites ==
  { RowWrite("m1", "INSERT", Cols), RowWrite("m1", "UPDATE", {"title"}),
    RowWrite("m1", "UPDATE", {}), RowWrite("m1", "DELETE", {}) }

\* the writes _apply_entry may make for a remote entry
RemoteWrites ==
  { RowWrite("m1", "INSERT", Cols), RowWrite("m1", "UPDATE", {"title"}),
    RowWrite("m1", "DELETE", {}) }

IsInsert(w) == w.op = "INSERT"

IsUpdate(w) == w.op = "UPDATE"

IsDelete(w) == w.op = "DELETE"

\* _after_flush visits session.new, then session.dirty, then
\* session.deleted
HookOrder(pending) ==
  SelectSeq(pending, IsInsert) \o SelectSeq(pending, IsUpdate)
    \o SelectSeq(pending, IsDelete)

\* lines 89-94: an update whose changed columns are none is passed over
Tracked(w) == ~(w.op = "UPDATE" /\ w.cols = {})

EntryFor(w, ts) == MakeEntry(ts, Engine, w.id, w.op, FieldsOf(w.op, w.cols, ts))

AddEntry(e, r) == [r EXCEPT !.entries = @ \cup {e}]

RECURSIVE MakeEntries(_, _)
StampedFirst(w, clock2, rest) ==
  AddEntry(EntryFor(w, ClockStamp(clock2, Engine)), MakeEntries(clock2, rest))

\* the entries of the visited objects, each stamped by clock.now(); the
\* result is [clock, entries]
MakeEntries(clock, ws) ==
  IF ws = <<>> THEN [clock |-> clock, entries |-> {}]
  ELSE IF ~Tracked(Head(ws)) THEN MakeEntries(clock, Tail(ws))
  ELSE StampedFirst(Head(ws), ClockNow(clock, 1), Tail(ws))

\* _after_flush (lines 69-115): nothing while the flag is set
AfterFlush(flag, clock, pending) ==
  IF flag THEN [clock |-> clock, entries |-> {}]
  ELSE MakeEntries(clock, HookOrder(pending))

\* session.flush() of thread t: the statements, then the hook; r is the
\* hook's result
Flushed(t, r, nextPc) ==
  /\ dbLock \in {"none", t}
  /\ dbLock' = t
  /\ tkClock' = r.clock
  /\ thr' = [thr EXCEPT ![t].pc = nextPc,
                        ![t].writes = @ \o thr[t].pending,
                        ![t].pending = <<>>,
                        ![t].emitted = @ \cup r.entries]

\* session.commit() of thread t, its session flushed
Committed(t, origin) ==
  /\ txLog' = txLog \cup
       {[thread |-> t, origin |-> origin,
         writes |-> thr[t].writes, entries |-> thr[t].emitted]}
  /\ dbLock' = IF dbLock = t THEN "none" ELSE dbLock
  /\ thr' = [thr EXCEPT ![t] = IdleThread]

\* pull lines 134-152 of a puller: it has batches to apply
PullBegin ==
  /\ \E t \in Pullers, n \in 1..MaxPullBatches :
       /\ thr[t].pc = "idle"
       /\ runsLeft[t] > 0
       /\ runsLeft' = [runsLeft EXCEPT ![t] = @ - 1]
       /\ thr' = [thr EXCEPT ![t].pc = "batch", ![t].batches = n]
  /\ UNCHANGED <<suppressed, dbLock, txLog, tkClock>>
  /\ UNCHANGED <<clockVars, syncVars, cycleVars, restVars>>

\* suppress().__enter__ (line 63) in _apply_remote_changes
SuppressEnter ==
  /\ \E t \in Pullers :
       /\ thr[t].pc = "batch"
       /\ thr' = [thr EXCEPT ![t].pc = "apply"]
  /\ suppressed' = TRUE
  /\ UNCHANGED <<dbLock, txLog, tkClock, runsLeft>>
  /\ UNCHANGED <<clockVars, syncVars, cycleVars, restVars>>

\* _apply_entry up to its flush (lines 258-296): the row is changed in the
\* session
ApplyRemote ==
  /\ \E t \in Pullers, w \in RemoteWrites :
       /\ thr[t].pc = "apply"
       /\ Len(thr[t].writes) < MaxTxWrites
       /\ thr' = [thr EXCEPT ![t].pc = "flush", ![t].pending = <<w>>]
  /\ UNCHANGED <<suppressed, dbLock, txLog, tkClock, runsLeft>>
  /\ UNCHANGED <<clockVars, syncVars, cycleVars, restVars>>

\* db.flush() (line 298); the loop goes on or ends
ApplyFlush ==
  /\ \E t \in Pullers, nextPc \in {"apply", "exit"} :
       /\ thr[t].pc = "flush"
       /\ Flushed(t, AfterFlush(suppressed, tkClock, thr[t].pending), nextPc)
  /\ UNCHANGED <<suppressed, txLog, runsLeft>>
  /\ UNCHANGED <<clockVars, syncVars, cycleVars, restVars>>

\* the batch has no further entry: the loop ends
ApplyNoMore ==
  /\ \E t \in Pullers :
       /\ thr[t].pc = "apply"
       /\ thr' = [thr EXCEPT ![t].pc = "exit"]
  /\ UNCHANGED <<suppressed, dbLock, txLog, tkClock, runsLeft>>
  /\ UNCHANGED <<clockVars, syncVars, cycleVars, restVars>>

\* suppress().__exit__ (line 67), then the next batch or the commit
SuppressExit ==
  /\ \E t \in Pullers :
       /\ thr[t].pc = "exit"
       /\ thr' = [thr EXCEPT ![t].pc = IF thr[t].batches > 1 THEN "batch" ELSE "commit",
                             ![t].batches = @ - 1]
  /\ suppressed' = FALSE
  /\ UNCHANGED <<dbLock, txLog, tkClock, runsLeft>>
  /\ UNCHANGED <<clockVars, syncVars, cycleVars, restVars>>

\* pull line 171: db.commit()
PullerCommit ==
  /\ \E t \in Pullers :
       /\ thr[t].pc = "commit"
       /\ Committed(t, "remote")
  /\ UNCHANGED <<suppressed, tkClock, runsLeft>>
  /\ UNCHANGED <<clockVars, syncVars, cycleVars, restVars>>

\* a writer changes a row in its session
WriterModify ==
  /\ \E t \in Writers, w \in LocalWrites :
       /\ thr[t].pc \in {"idle", "open"}
       /\ thr[t].pc = "idle" => runsLeft[t] > 0
       /\ Len(thr[t].pending) < MaxTxWrites
       /\ \A i \in 1..Len(thr[t].pending) : thr[t].pending[i].op # w.op
       /\ runsLeft' = [runsLeft EXCEPT ![t] = IF thr[t].pc = "idle" THEN @ - 1 ELSE @]
       /\ thr' = [thr EXCEPT ![t].pc = "open", ![t].pending = Append(@, w)]
  /\ UNCHANGED <<suppressed, dbLock, txLog, tkClock>>
  /\ UNCHANGED <<clockVars, syncVars, cycleVars, restVars>>

\* get_db's commit: the flush that commit starts with
WriterFlush ==
  /\ \E t \in Writers :
       /\ thr[t].pc = "open"
       /\ Flushed(t, AfterFlush(suppressed, tkClock, thr[t].pending), "commit")
  /\ UNCHANGED <<suppressed, txLog, runsLeft>>
  /\ UNCHANGED <<clockVars, syncVars, cycleVars, restVars>>

\* and the COMMIT
WriterCommit ==
  /\ \E t \in Writers :
       /\ thr[t].pc = "commit"
       /\ Committed(t, "local")
  /\ UNCHANGED <<suppressed, tkClock, runsLeft>>
  /\ UNCHANGED <<clockVars, syncVars, cycleVars, restVars>>

InitTracker ==
  /\ ClockGroupInit
  /\ SyncGroupInit
  /\ CycleGroupInit
  /\ TrackerInitWith([t \in Threads |-> IF t \in Writers THEN MaxWriterTxs ELSE 1])
  /\ RestGroupInit

NextTracker ==
  \/ PullBegin \/ SuppressEnter \/ ApplyRemote \/ ApplyFlush \/ ApplyNoMore
  \/ SuppressExit \/ PullerCommit \/ WriterModify \/ WriterFlush \/ WriterCommit

SpecTracker == InitTracker /\ [][NextTracker]_vars

\* the entries of transaction t for write w
EntriesFor(t, w) ==
  { e \in t.entries :
      e.device_id = Engine /\ e.entity_id = w.id /\ e.operation = w.op }

\* C2: every committed INSERT, DELETE or column-changing UPDATE of a writer
\* has exactly one entry committed in its transaction, and an UPDATE that
\* dirties only a collection has none.
OneEntryPerWrite ==
  \A t \in txLog :
    t.origin = "local" =>
      \A i \in 1..Len(t.writes) :
        Cardinality(EntriesFor(t, t.writes[i])) =
          IF Tracked(t.writes[i]) THEN 1 ELSE 0

\* C3: a transaction of pull, which writes rows only to apply remote
\* entries, commits no changelog entry.
NoEcho ==
  \A t \in txLog : t.origin = "remote" => t.entries = {}

(***************************************************************************)
(* SpecFiles: the engine's device runs sync_now (engine.py                *)
(* _track_file_changes, protocol.py push and _push_files) while tracked   *)
(* files are written, removed and created, a row may be written locally   *)
(* and an upload may fail.  pc is "idle", "files" (inside _push_files) or *)
(* "pull" (push has returned).                                            *)
(***************************************************************************)
\* the manifests _push_files queries: synced_at IS NULL
PendingFiles(rows) == { f \in Paths : rows[f].tracked /\ ~rows[f].synced_at }

\* a tracked file is written, created or removed
FsEdit ==
  /\ editsLeft > 0
  /\ editsLeft' = editsLeft - 1
  /\ \E f \in Paths, c \in Contents \cup {NoFile} :
       /\ c # disk[f]
       /\ disk' = [disk EXCEPT ![f] = c]
       /\ fobs' = [fobs EXCEPT !.touched = @ \cup {f}]
  /\ UNCHANGED <<manifest, fileStore>>
  /\ UNCHANGED <<clockVars, syncVars, cycleVars, trackerVars, vaultVars, chunkVars, lateVars>>

\* a local transaction inserts a row: the tracker adds a changelog entry
FsRowWrite ==
  /\ pc = "idle"
  /\ LocalInsertOn(Engine, CycleReadings)
  /\ UNCHANGED <<clockVars, cycleVars, trackerVars, restVars>>

\* push from its query to the call of _push_files (protocol.py 53-84), on
\* the rows _track_file_changes left: without unpushed entries push returns
\* at line 67
FsPush(rows, entries) ==
  /\ manifest' = rows
  /\ fobs' = [IdleFobs EXCEPT
                !.pending = IF entries = <<>> THEN {} ELSE PendingFiles(rows),
                !.due = { f \in PendingFiles(rows) : disk[f] # NoFile }]
  /\ pc' = IF entries = <<>> THEN "pull" ELSE "files"
  /\ cyc' = [IdleCyc EXCEPT !.entries = entries]
  /\ cloud' = IF entries = <<>> THEN cloud
              ELSE [cloud EXCEPT ![Engine] = UploadBatches(@, entries, 1, 1)]

\* sync_now: _track_file_changes (check_file on every tracked path), then
\* push
FsCycleStart ==
  /\ pc = "idle"
  /\ FsPush([f \in Paths |-> CheckFile(manifest[f], disk[f])],
            OrderByHlc(Unpushed(changelog[Engine], Engine,
                                syncState[Engine].last_pushed_hlc)))
  /\ UNCHANGED <<disk, fileStore, editsLeft>>
  /\ UNCHANGED <<store, changelog, hlc, syncState, opsLeft, applied, applyLog>>
  /\ UNCHANGED <<sess, obs, faultsLeft>>
  /\ UNCHANGED <<clockVars, trackerVars, vaultVars, chunkVars, lateVars>>

\* the body of the loop of _push_files for the manifest of f (lines
\* 109-122): a missing file is passed over, otherwise the bytes read now
\* are uploaded under the recorded content_hash and the row is stamped
FsPushFile ==
  /\ pc = "files"
  /\ \E f \in fobs.pending :
       IF disk[f] = NoFile
         THEN /\ fobs' = [fobs EXCEPT !.pending = @ \ {f}]
              /\ UNCHANGED <<manifest, fileStore>>
         ELSE /\ fileStore' = UploadFile(fileStore, manifest[f].content_hash, disk[f])
              /\ manifest' = [manifest EXCEPT ![f] = Stamp(@)]
              /\ fobs' = [fobs EXCEPT !.pending = @ \ {f},
                                      !.stamped = @ \cup {f}]
  /\ UNCHANGED <<disk, editsLeft, faultsLeft>>
  /\ UNCHANGED <<pc, cyc, sess, obs>>
  /\ UNCHANGED <<clockVars, syncVars, trackerVars, vaultVars, chunkVars, lateVars>>

\* encrypt_bytes or upload_file raises for the manifest of f: the handler
\* at line 123 logs it and the loop goes on
FsPushFileFails ==
  /\ pc = "files"
  /\ faultsLeft > 0
  /\ faultsLeft' = faultsLeft - 1
  /\ \E f \in fobs.pending :
       /\ disk[f] # NoFile
       /\ fobs' = [fobs EXCEPT !.pending = @ \ {f}, !.failed = @ \cup {f}]
  /\ UNCHANGED <<disk, manifest, fileStore, editsLeft>>
  /\ UNCHANGED <<pc, cyc, sess, obs>>
  /\ UNCHANGED <<clockVars, syncVars, trackerVars, vaultVars, chunkVars, lateVars>>

\* the end of _push_files and lines 87-88: the watermark and the commit
FsPushCommit ==
  /\ pc = "files"
  /\ fobs.pending = {}
  /\ pc' = "pull"
  /\ cyc' = IdleCyc
  /\ syncState' = [syncState EXCEPT ![Engine].last_pushed_hlc =
                     cyc.entries[Len(cyc.entries)].hlc_timestamp]
  /\ UNCHANGED <<store, changelog, hlc, cloud, opsLeft, applied, applyLog>>
  /\ UNCHANGED <<sess, obs, faultsLeft>>
  /\ UNCHANGED <<clockVars, trackerVars, restVars>>

\* pull finds nothing to apply; sync_now returns
FsCycleEnd ==
  /\ pc = "pull"
  /\ pc' = "idle"
  /\ UNCHANGED <<cyc, sess, obs, faultsLeft>>
  /\ UNCHANGED <<clockVars, syncVars, trackerVars, restVars>>

InitFiles ==
  /\ ClockGroupInit
  /\ SyncInitWith([d \in Devices |-> IF d = Engine THEN MaxFileRowOps ELSE 0])
  /\ CycleInitWith(MaxFileFaults)
  /\ TrackerGroupInit
  /\ \E files \in [Paths -> Contents \cup {NoFile}] :
       FileInitWith(files, MaxFileEdits)
  /\ VaultInitWith(0)
  /\ ChunkInitWith(<<>>, "off")
  /\ LateGroupInit

NextFiles ==
  \/ FsEdit \/ FsRowWrite \/ FsCycleStart \/ FsPushFile \/ FsPushFileFails
  \/ FsPushCommit \/ FsCycleEnd

SpecFiles == InitFiles /\ [][NextFiles]_vars

\* C14: when push has returned, every manifest that was pending with its
\* file present when the push began (and whose file was not written
\* meanwhile and whose upload did not fail) is uploaded and stamped with
\* cloud_key = content_hash and synced_at, whether or not the device had
\* unpushed changelog entries.
EveryPushUploadsFiles ==
  pc = "pull" =>
    \A f \in fobs.due \ (fobs.failed \cup fobs.touched) :
      /\ manifest[f].synced_at
      /\ manifest[f].cloud_key = manifest[f].content_hash
      /\ fileStore[manifest[f].content_hash].data # NoFile

\* C15: for every manifest, synced_at is null exactly when cloud_key is
\* null, and a manifest with synced_at set has its object files/{hash}.enc
\* in the store, made from contents whose SHA-256 is the recorded hash.
SyncedIffUploaded ==
  \A f \in Paths :
    /\ manifest[f].synced_at <=> manifest[f].cloud_key # NoHash
    /\ manifest[f].synced_at =>
         /\ fileStore[manifest[f].content_hash].data # NoFile
         /\ Sha256(fileStore[manifest[f].content_hash].data) = manifest[f].content_hash

FreshDraw(left) == MaxSalts - left + 1

\* _is_session_expired
IsSessionExpired(ses, now) ==
  \/ ses.unlocked_at = -1
  \/ now - ses.unlocked_at > SessionTimeout

\* _set_session_key
SetSessionKey(key, key_id, now) ==
  [key |-> key, key_id |-> key_id, unlocked_at |-> now]

\* setup under _op_lock: the outcome, the vault file and the session
Setup(file, ses, pw, draw, now) ==
  IF file.initialized
  THEN [result |-> "AlreadyInitialized", file |-> file, session |-> ses]
  ELSE [result |-> "ok",
        file |-> [initialized |-> TRUE, salt |-> draw, key_id |-> draw,
                  verification_token |-> VerificationToken(DeriveKey(pw, draw)),
                  previous_key_id |-> 0],
        session |-> SetSessionKey(DeriveKey(pw, draw), draw, now)]

\* unlock under _op_lock
Unlock(file, ses, pw, now) ==
  IF ~file.initialized
  THEN [result |-> "NotInitialized", file |-> file, session |-> ses]
  ELSE IF ~VerifyToken(DeriveKey(pw, file.salt), file.verification_token)
  THEN [result |-> "InvalidPassphrase", file |-> file, session |-> ses]
  ELSE [result |-> "ok", file |-> file,
        session |-> SetSessionKey(DeriveKey(pw, file.salt), file.key_id, now)]

\* change_passphrase that forgets the session when the passphrase is wrong
ChangePassphraseWiping(file, ses, cur, new, draw, now) ==
  IF ~file.initialized
  THEN [result |-> "NotInitialized", file |-> file, session |-> ses]
  ELSE IF ~VerifyToken(DeriveKey(cur, file.salt), file.verification_token)
  THEN [result |-> "InvalidPassphrase", file |-> file, session |-> NoSession]
  ELSE [result |-> "ok",
        file |-> [initialized |-> TRUE, salt |-> draw, key_id |-> draw,
                  verification_token |-> VerificationToken(DeriveKey(new, draw)),
                  previous_key_id |-> file.key_id],
        session |-> SetSessionKey(DeriveKey(new, draw), draw, now)]

\* change_passphrase under _op_lock
ChangePassphrase(file, ses, cur, new, draw, now) ==
  IF ~file.initialized
  THEN [result |-> "NotInitialized", file |-> file, session |-> ses]
  ELSE IF ~VerifyToken(DeriveKey(cur, file.salt), file.verification_token)
  THEN [result |-> "InvalidPassphrase", file |-> file, session |-> ses]
  ELSE [result |-> "ok",
        file |-> [initialized |-> TRUE, salt |-> draw, key_id |-> draw,
                  verification_token |-> VerificationToken(DeriveKey(new, draw)),
                  previous_key_id |-> file.key_id],
        session |-> SetSessionKey(DeriveKey(new, draw), draw, now)]

\* get_key: it takes _op_lock and reads is_unlocked; on an expired session
\* is_unlocked calls lock(), which waits for _op_lock, a threading.Lock
\* the calling thread already holds
GetKey(ses, now) ==
  IF ses.key = NoKey
  THEN [result |-> "Locked", session |-> ses]
  ELSE IF IsSessionExpired(ses, now)
  THEN [result |-> "blocked", session |-> ses]
  ELSE [result |-> "ok", session |-> [ses EXCEPT !.unlocked_at = now]]

\* AESGCM.decrypt of a sealed batch: the tag verifies under the sealing key
Decrypts(key, batch) == key = batch.key

\* the call just made, with the vault file and the session it found
CallOf(d, op, arg, result) ==
  [dev |-> d, op |-> op, arg |-> arg, result |-> result,
   file |-> vfile[d], session |-> vsess[d], at |-> vnow]

\* time.monotonic() advances
VTick ==
  /\ vnow < MaxTicks
  /\ vnow' = vnow + 1
  /\ UNCHANGED <<vfile, vsess, vlock, vcall, sealed, saltsLeft>>
  /\ UNCHANGED <<clockVars, syncVars, cycleVars, trackerVars, fileVars, chunkVars, lateVars>>

\* setup_encryption(passphrase): setup when vault.json is absent, else unlock
VSetupEncryption ==
  /\ \E d \in Devices, pw \in Passphrases :
       /\ vlock[d] = "free"
       /\ IF ~vfile[d].initialized
          THEN /\ saltsLeft > 0
               /\ saltsLeft' = saltsLeft - 1
               /\ LET r == Setup(vfile[d], vsess[d], pw, FreshDraw(saltsLeft), vnow)
                  IN /\ vfile' = [vfile EXCEPT ![d] = r.file]
                     /\ vsess' = [vsess EXCEPT ![d] = r.session]
                     /\ vcall' = CallOf(d, "setup", pw, r.result)
          ELSE /\ LET r == Unlock(vfile[d], vsess[d], pw, vnow)
                  IN /\ vfile' = [vfile EXCEPT ![d] = r.file]
                     /\ vsess' = [vsess EXCEPT ![d] = r.session]
                     /\ vcall' = CallOf(d, "unlock", pw, r.result)
               /\ UNCHANGED saltsLeft
  /\ UNCHANGED <<vnow, vlock, sealed>>
  /\ UNCHANGED <<clockVars, syncVars, cycleVars, trackerVars, fileVars, chunkVars, lateVars>>

\* lock()
VLock ==
  /\ \E d \in Devices :
       /\ vlock[d] = "free"
       /\ vsess[d] # NoSession
       /\ vsess' = [vsess EXCEPT ![d] = NoSession]
       /\ vcall' = CallOf(d, "lock", "", "ok")
  /\ UNCHANGED <<vfile, vnow, vlock, sealed, saltsLeft>>
  /\ UNCHANGED <<clockVars, syncVars, cycleVars, trackerVars, fileVars, chunkVars, lateVars>>

\* is_unlocked read outside _op_lock (sync_now, status): an expired session
\* is locked
VIsUnlocked ==
  /\ \E d \in Devices :
       /\ vlock[d] = "free"
       /\ vsess[d].key # NoKey
       /\ IF IsSessionExpired(vsess[d], vnow)
          THEN /\ vsess' = [vsess EXCEPT ![d] = NoSession]
               /\ vcall' = CallOf(d, "is_unlocked", "", "false")
          ELSE /\ vsess' = vsess
               /\ vcall' = CallOf(d, "is_unlocked", "", "true")
  /\ UNCHANGED <<vfile, vnow, vlock, sealed, saltsLeft>>
  /\ UNCHANGED <<clockVars, syncVars, cycleVars, trackerVars, fileVars, chunkVars, lateVars>>

\* change_passphrase(current, new)
VChangePassphrase ==
  /\ \E d \in Devices, cur \in Passphrases, new \in Passphrases :
       /\ vlock[d] = "free"
       /\ vfile[d].initialized
       /\ cur # new
       /\ saltsLeft > 0
       /\ LET r == ChangePassphrase(vfile[d], vsess[d], cur, new,
                                    FreshDraw(saltsLeft), vnow)
          IN /\ vfile' = [vfile EXCEPT ![d] = r.file]
             /\ vsess' = [vsess EXCEPT ![d] = r.session]
             /\ vcall' = CallOf(d, "change_passphrase", cur, r.result)
             /\ saltsLeft' = IF r.result = "ok" THEN saltsLeft - 1 ELSE saltsLeft
  /\ UNCHANGED <<vnow, vlock, sealed>>
  /\ UNCHANGED <<clockVars, syncVars, cycleVars, trackerVars, fileVars, chunkVars, lateVars>>

\* get_key()
VGetKey ==
  /\ \E d \in Devices :
       /\ vlock[d] = "free"
       /\ LET r == GetKey(vsess[d], vnow)
          IN /\ vsess' = [vsess EXCEPT ![d] = r.session]
             /\ vcall' = CallOf(d, "get_key", "", r.result)
             /\ vlock' = [vlock EXCEPT ![d] =
                            IF r.result = "blocked" THEN "held" ELSE "free"]
  /\ UNCHANGED <<vfile, vnow, sealed, saltsLeft>>
  /\ UNCHANGED <<clockVars, syncVars, cycleVars, trackerVars, fileVars, chunkVars, lateVars>>

\* push on device d: encrypt(batch) under get_key(), then the upload
VEncrypt ==
  /\ \E d \in Devices :
       /\ vlock[d] = "free"
       /\ LET r == GetKey(vsess[d], vnow)
          IN /\ r.result = "ok"
             /\ vsess' = [vsess EXCEPT ![d] = r.session]
             /\ vcall' = CallOf(d, "encrypt", "", "ok")
             /\ sealed' = sealed \cup
                  {[dev |-> d, key |-> vsess[d].key,
                    rotated |-> vfile[d].previous_key_id # 0]}
  /\ UNCHANGED <<vfile, vnow, vlock, saltsLeft>>
  /\ UNCHANGED <<clockVars, syncVars, cycleVars, trackerVars, fileVars, chunkVars, lateVars>>

\* pull on device d: decrypt(batch of a peer) under get_key()
VDecrypt ==
  /\ \E d \in Devices, b \in sealed :
       /\ vlock[d] = "free"
       /\ b.dev # d
       /\ LET r == GetKey(vsess[d], vnow)
          IN /\ r.result = "ok"
             /\ vsess' = [vsess EXCEPT ![d] = r.session]
             /\ vcall' = CallOf(d, "decrypt", b,
                                IF Decrypts(vsess[d].key, b) THEN "ok"
                                ELSE "AuthFailed")
  /\ UNCHANGED <<vfile, vnow, vlock, sealed, saltsLeft>>
  /\ UNCHANGED <<clockVars, syncVars, cycleVars, trackerVars, fileVars, chunkVars, lateVars>>

InitVault ==
  /\ ClockGroupInit
  /\ SyncInitWith([d \in Devices |-> 0])
  /\ CycleGroupInit
  /\ TrackerGroupInit
  /\ FileInitWith([f \in Paths |-> NoFile], 0)
  /\ VaultInitWith(MaxSalts)
  /\ ChunkInitWith(<<>>, "off")
  /\ LateGroupInit

NextVault ==
  \/ VTick \/ VSetupEncryption \/ VLock \/ VIsUnlocked \/ VChangePassphrase
  \/ VGetKey \/ VEncrypt \/ VDecrypt

SpecVault == InitVault /\ [][NextVault]_vars

\* C17: a batch a device sealed after it changed its passphrase is not
\* decrypted by a peer whose session key comes from another passphrase,
\* and is decrypted by a peer whose session was unlocked with the sealing
\* device's new passphrase.
RotationThenDecrypt ==
  (vcall.op = "decrypt" /\ vcall.arg.rotated) =>
    /\ vcall.session.key.pw # vcall.arg.key.pw => vcall.result = "AuthFailed"
    /\ vcall.session.key.pw = vcall.arg.key.pw => vcall.result = "ok"

\* C18: get_key on a session idle for longer than the timeout ends with
\* Locked and the session key wiped; on an unlocked session within the
\* timeout it returns the key and resets the idle timer; it never waits
\* forever.
GetKeyTerminates ==
  vcall.op = "get_key" =>
    /\ vcall.result # "blocked"
    /\ (vcall.session.key # NoKey /\ IsSessionExpired(vcall.session, vcall.at)) =>
         (vcall.result = "Locked" /\ vsess[vcall.dev] = NoSession)
    /\ (vcall.session.key # NoKey /\ ~IsSessionExpired(vcall.session, vcall.at)) =>
         (vcall.result = "ok" /\ vsess[vcall.dev].unlocked_at = vcall.at
            /\ vsess[vcall.dev].key = vcall.session.key)

\* C19: change_passphrase with a wrong current passphrase ends with
\* InvalidPassphrase and leaves the vault file and the session as the call
\* found them; with the right one the session is unlocked under a key_id
\* never used before and previous_key_id is the key_id the call found.
ChangePassphraseOutcome ==
  vcall.op = "change_passphrase" =>
    LET d == vcall.dev
        right == VerifyToken(DeriveKey(vcall.arg, vcall.file.salt),
                             vcall.file.verification_token)
    IN /\ ~right => /\ vcall.result = "InvalidPassphrase"
                    /\ vfile[d] = vcall.file
                    /\ vsess[d] = vcall.session
       /\ right => /\ vcall.result = "ok"
                   /\ vsess[d].key # NoKey
                   /\ vsess[d].key_id = vfile[d].key_id
                   /\ vfile[d].key_id # vcall.file.key_id
                   /\ vfile[d].previous_key_id = vcall.file.key_id
                   /\ vfile[d].salt # vcall.file.salt

\* C19 witness: a wrong current passphrase was given while the session was
\* unlocked, on a vault whose passphrase had been changed before.
ChangePassphraseWitness ==
  /\ vcall.op = "change_passphrase"
  /\ vcall.result = "InvalidPassphrase"
  /\ vcall.session.key # NoKey
  /\ vcall.file.previous_key_id # 0

(***************************************************************************)
(* SpecChunk: a chunked container (encryption.py) written by               *)
(* _encrypt_file_chunked, altered on disk, and read by                     *)
(* _decrypt_file_chunked                                                   *)
(***************************************************************************)
\* the plaintexts of a file longer than one chunk, chunk by chunk
ChunkedPlaintexts ==
  UNION {[1..n -> 1..MaxChunkValue] : n \in 2..MaxChunks}

\* _encrypt_file_chunked: chunk i is sealed with its index as AAD, and a
\* zero-length sentinel closes the container
EncryptFileChunked(plain) ==
  [chunks |-> [i \in 1..Len(plain) |-> [aad |-> i - 1, data |-> plain[i]]],
   sentinel |-> TRUE]

\* the chunks at positions i and j change places
SwapChunks(box, i, j) ==
  [box EXCEPT !.chunks =
     [k \in 1..Len(box.chunks) |->
        IF k = i THEN box.chunks[j] ELSE IF k = j THEN box.chunks[i]
        ELSE box.chunks[k]]]

\* the chunk at position i is cut out
DropChunk(box, i) ==
  [box EXCEPT !.chunks =
     SubSeq(box.chunks, 1, i - 1) \o SubSeq(box.chunks, i + 1, Len(box.chunks))]

\* the container ends after its k-th chunk
TruncateAfter(box, k) ==
  [chunks |-> SubSeq(box.chunks, 1, k), sentinel |-> FALSE]

RECURSIVE ReadChunks(_, _, _)
\* the loop of _decrypt_file_chunked from position i on: the end of the
\* file and the sentinel both end it, a chunk whose AAD is not the running
\* index raises, every chunk before it is already written to dst
ReadChunks(box, i, written) ==
  IF i > Len(box.chunks)
  THEN [outcome |-> "ok", written |-> written]
  ELSE IF box.chunks[i].aad # i - 1
  THEN [outcome |-> "raised", written |-> written]
  ELSE ReadChunks(box, i + 1, Append(written, box.chunks[i].data))

\* _decrypt_file_chunked: dst is opened for writing, then the loop
DecryptFileChunked(box) == ReadChunks(box, 1, <<>>)

\* encrypt_file(src, container)
CfEncrypt ==
  /\ cfStage = "plain"
  /\ cfBox' = EncryptFileChunked(cfPlain)
  /\ cfStage' = "sealed"
  /\ UNCHANGED <<cfPlain, cfDst>>
  /\ UNCHANGED <<clockVars, syncVars, cycleVars, trackerVars, fileVars, vaultVars, lateVars>>

\* two chunks of the container are swapped on disk
CfSwap ==
  /\ cfStage = "sealed"
  /\ \E i \in 1..Len(cfBox.chunks), j \in 1..Len(cfBox.chunks) :
       /\ i < j
       /\ cfBox' = SwapChunks(cfBox, i, j)
  /\ cfStage' = "altered"
  /\ UNCHANGED <<cfPlain, cfDst>>
  /\ UNCHANGED <<clockVars, syncVars, cycleVars, trackerVars, fileVars, vaultVars, lateVars>>

\* one chunk of the container is dropped on disk
CfDrop ==
  /\ cfStage = "sealed"
  /\ \E i \in 1..Len(cfBox.chunks) : cfBox' = DropChunk(cfBox, i)
  /\ cfStage' = "altered"
  /\ UNCHANGED <<cfPlain, cfDst>>
  /\ UNCHANGED <<clockVars, syncVars, cycleVars, trackerVars, fileVars, vaultVars, lateVars>>

\* the container is truncated after one of its chunks, losing at least one
CfTruncate ==
  /\ cfStage = "sealed"
  /\ \E k \in 1..(Len(cfBox.chunks) - 1) : cfBox' = TruncateAfter(cfBox, k)
  /\ cfStage' = "altered"
  /\ UNCHANGED <<cfPlain, cfDst>>
  /\ UNCHANGED <<clockVars, syncVars, cycleVars, trackerVars, fileVars, vaultVars, lateVars>>

\* decrypt_file(container, dst)
CfDecrypt ==
  /\ cfStage \in {"sealed", "altered"}
  /\ cfDst' = DecryptFileChunked(cfBox)
  /\ cfStage' = "read"
  /\ UNCHANGED <<cfPlain, cfBox>>
  /\ UNCHANGED <<clockVars, syncVars, cycleVars, trackerVars, fileVars, vaultVars, lateVars>>

InitChunk ==
  /\ ClockGroupInit
  /\ SyncInitWith([d \in Devices |-> 0])
  /\ CycleGroupInit
  /\ TrackerGroupInit
  /\ FileInitWith([f \in Paths |-> NoFile], 0)
  /\ VaultInitWith(0)
  /\ \E plain \in ChunkedPlaintexts : ChunkInitWith(plain, "plain")
  /\ LateGroupInit

NextChunk == CfEncrypt \/ CfSwap \/ CfDrop \/ CfTruncate \/ CfDecrypt

SpecChunk == InitChunk /\ [][NextChunk]_vars

\* C20: decrypt_file on a chunked container either returns with dst
\* holding exactly the original plaintext, or raises with nothing of the
\* plaintext in dst; a container with two chunks swapped, a chunk dropped
\* or truncated after a chunk makes it raise.
ChunkedAllOrNothing ==
  cfStage = "read" =>
    /\ \/ cfDst.outcome = "ok" /\ cfDst.written = cfPlain
       \/ cfDst.outcome = "raised" /\ cfDst.written = <<>>
    /\ cfBox # EncryptFileChunked(cfPlain) => cfDst.outcome = "raised"

(***************************************************************************)
(* SpecOrder: the comparisons protocol.py makes on the strings of two      *)
(* timestamps: the push query (hlc_timestamp > last_pushed_hlc), the       *)
(* cursor filter of pull (b > last_pulled) and the conflict query          *)
(* (hlc_timestamp >= remote.hlc_timestamp)                                 *)
(***************************************************************************)
\* counters a clock reaches while the physical reading stays at or below
\* last_wall_ms: every now() and receive() adds one, and nothing caps it
OrderCounters == {0, 9, 10, 9999, 10000}

OrderStamps ==
  { HLCTimestamp(w, c, n) : w \in 1..MaxOrderWall, c \in OrderCounters,
                            n \in {"A", "B"} }

\* push: ChangeLogEntry.hlc_timestamp > state.last_pushed_hlc
PushSelects(entry_hlc, last_pushed) == StrGt(HlcStr(entry_hlc), HlcStr(last_pushed))

\* pull: [b for b in batches if b > last_pulled]
PullSelects(batch, last_pulled) == StrGt(BatchStr(batch), BatchStr(last_pulled))

\* _find_local_conflict: ChangeLogEntry.hlc_timestamp >= remote.hlc_timestamp
ConflictSelects(local_hlc, remote_hlc) == StrGe(HlcStr(local_hlc), HlcStr(remote_hlc))

OrdPushQuery ==
  /\ ordUse' = "push"
  /\ ordSel' = PushSelects(ordA, ordB)
  /\ UNCHANGED <<ordA, ordB>>
  /\ UNCHANGED <<clockVars, syncVars, cycleVars, trackerVars, fileVars, vaultVars, chunkVars, engVars, devVars>>

OrdPullFilter ==
  /\ ordUse' = "pull"
  /\ \E r \in Rands : ordSel' = PullSelects(BatchId(ordA, r), BatchId(ordB, r))
  /\ UNCHANGED <<ordA, ordB>>
  /\ UNCHANGED <<clockVars, syncVars, cycleVars, trackerVars, fileVars, vaultVars, chunkVars, engVars, devVars>>

OrdConflictQuery ==
  /\ ordUse' = "conflict"
  /\ ordSel' = ConflictSelects(ordA, ordB)
  /\ UNCHANGED <<ordA, ordB>>
  /\ UNCHANGED <<clockVars, syncVars, cycleVars, trackerVars, fileVars, vaultVars, chunkVars, engVars, devVars>>

InitOrder ==
  /\ ClockGroupInit
  /\ SyncInitWith([d \in Devices |-> 0])
  /\ CycleGroupInit
  /\ TrackerGroupInit
  /\ FileInitWith([f \in Paths |-> NoFile], 0)
  /\ VaultInitWith(0)
  /\ ChunkInitWith(<<>>, "off")
  /\ \E a \in OrderStamps, b \in OrderStamps : OrderInitWith(a, b)
  /\ EngInitWith("off", 0, 0, 0)
  /\ DevInitWith({}, "off", 0, 0)

NextOrder == OrdPushQuery \/ OrdPullFilter \/ OrdConflictQuery

SpecOrder == InitOrder /\ [][NextOrder]_vars

\* C21: the strings of two timestamps compare as the timestamps do in
\* (wall_ms, counter, node_id) order, so the push query, the cursor filter
\* and the conflict query select by HLC order.
StringOrderIsHlcOrder ==
  /\ ordUse # "none" => (StrLt(HlcStr(ordA), HlcStr(ordB)) <=> HlcGt(ordB, ordA))
  /\ ordUse \in {"push", "pull"} => (ordSel <=> HlcGt(ordA, ordB))
  /\ ordUse = "conflict" => (ordSel <=> HlcGe(ordA, ordB))

(***************************************************************************)
(* SpecEngine: the callers of sync_now on one engine (engine.py): the REST *)
(* trigger, the auto-sync loop and set_online, which are coroutines of     *)
(* one event loop, and the initial-clone route, which FastAPI runs on a    *)
(* worker thread because it is a plain def.  A coroutine stands at "idle", *)
(* "sleep" (the loop's asyncio.sleep), "wait" (async with _sync_lock),     *)
(* "track", "push", "pull" (the body of sync_now) or "done"; the file      *)
(* scan, push and pull are taken as points where other tasks may run.      *)
(* The clone thread stands at "idle" or "pull".                            *)
(***************************************************************************)
InBody(t) == epc[t] \in {"track", "push", "pull"}

\* the lock is taken whatever its state
LockFreeAlways(lock) == TRUE

\* asyncio.Lock.acquire returns when the lock is not held
LockFree(lock) == lock = "free"

\* the loop treats every error as the end
LoopAfterStops(raised) == "done"

\* _auto_sync_loop lines 220-223: CancelledError breaks, any other
\* exception is logged and the loop goes on
LoopAfter(raised) == IF raised = "CancelledError" THEN "done" ELSE "sleep"

\* _auto_sync_loop line 218
AutoShouldSync(online, unlocked) == online /\ unlocked

\* where a caller of sync_now stands when sync_now has returned or raised
AfterSync(t, raised) == IF t = "auto" THEN LoopAfter(raised) ELSE "idle"

\* POST /api/sync: trigger_sync calls sync_now, which raises at once when
\* the vault is locked (lines 156-157)
EngRestCall ==
  /\ epc["rest"] = "idle"
  /\ eleft.calls["rest"] > 0
  /\ eleft' = [eleft EXCEPT !.calls["rest"] = @ - 1]
  /\ epc' = [epc EXCEPT !["rest"] = IF eunlocked THEN "wait" ELSE "idle"]
  /\ UNCHANGED <<elock, eonline, eunlocked, ecancel, eobs>>
  /\ UNCHANGED <<clockVars, syncVars, cycleVars, trackerVars, fileVars, vaultVars, chunkVars, orderVars, devVars>>

\* set_online(online): a sync on the change from offline to online
EngSetOnline ==
  /\ epc["online"] = "idle"
  /\ eleft.calls["online"] > 0
  /\ eleft' = [eleft EXCEPT !.calls["online"] = @ - 1]
  /\ \E online \in BOOLEAN :
       /\ eonline' = online
       /\ epc' = [epc EXCEPT !["online"] =
                    IF online /\ ~eonline /\ eunlocked THEN "wait" ELSE "idle"]
  /\ UNCHANGED <<elock, eunlocked, ecancel, eobs>>
  /\ UNCHANGED <<clockVars, syncVars, cycleVars, trackerVars, fileVars, vaultVars, chunkVars, orderVars, devVars>>

\* the loop's sleep ends: sync_now is called when online and unlocked
EngAutoWake ==
  /\ epc["auto"] = "sleep"
  /\ ~ecancel
  /\ eleft.ticks > 0
  /\ eleft' = [eleft EXCEPT !.ticks = @ - 1]
  /\ epc' = [epc EXCEPT !["auto"] =
               IF AutoShouldSync(eonline, eunlocked) THEN "wait" ELSE "sleep"]
  /\ eobs' = [eobs EXCEPT !.decided = TRUE, !.online = eonline,
                          !.unlocked = eunlocked,
                          !.called = AutoShouldSync(eonline, eunlocked),
                          !.retried = eobs.raises > 0]
  /\ UNCHANGED <<elock, eonline, eunlocked, ecancel>>
  /\ UNCHANGED <<clockVars, syncVars, cycleVars, trackerVars, fileVars, vaultVars, chunkVars, orderVars, devVars>>

\* async with self._sync_lock: the lock is acquired
EngAcquire ==
  /\ \E t \in SyncCallers :
       /\ epc[t] = "wait"
       /\ LockFree(elock)
       /\ elock' = t
       /\ epc' = [epc EXCEPT ![t] = "track"]
  /\ UNCHANGED <<eonline, eunlocked, ecancel, eobs, eleft>>
  /\ UNCHANGED <<clockVars, syncVars, cycleVars, trackerVars, fileVars, vaultVars, chunkVars, orderVars, devVars>>

\* _track_file_changes has returned, or push has
EngStep ==
  /\ \E t \in SyncCallers :
       /\ epc[t] \in {"track", "push"}
       /\ epc' = [epc EXCEPT ![t] = IF epc[t] = "track" THEN "push" ELSE "pull"]
  /\ UNCHANGED <<elock, eonline, eunlocked, ecancel, eobs, eleft>>
  /\ UNCHANGED <<clockVars, syncVars, cycleVars, trackerVars, fileVars, vaultVars, chunkVars, orderVars, devVars>>

\* pull has returned: the lock is released and sync_now returns
EngReturn ==
  /\ \E t \in SyncCallers :
       /\ epc[t] = "pull"
       /\ elock' = IF elock = t THEN "free" ELSE elock
       /\ epc' = [epc EXCEPT ![t] = AfterSync(t, "none")]
       /\ eobs' = IF t = "auto" THEN [eobs EXCEPT !.outcome = "returned"] ELSE eobs
  /\ UNCHANGED <<eonline, eunlocked, ecancel, eleft>>
  /\ UNCHANGED <<clockVars, syncVars, cycleVars, trackerVars, fileVars, vaultVars, chunkVars, orderVars, devVars>>

\* the file scan, push or pull raises: the lock is released and sync_now
\* raises; trigger_sync answers with an error, set_online and the loop log
EngRaise ==
  /\ \E t \in SyncCallers :
       /\ InBody(t)
       /\ elock' = IF elock = t THEN "free" ELSE elock
       /\ epc' = [epc EXCEPT ![t] = AfterSync(t, "Exception")]
       /\ eobs' = IF t = "auto"
                    THEN [eobs EXCEPT !.outcome = "raised", !.raises = 1]
                    ELSE eobs
  /\ UNCHANGED <<eonline, eunlocked, ecancel, eleft>>
  /\ UNCHANGED <<clockVars, syncVars, cycleVars, trackerVars, fileVars, vaultVars, chunkVars, orderVars, devVars>>

\* stop_auto_sync: task.cancel()
EngCancel ==
  /\ epc["auto"] # "done"
  /\ ~ecancel
  /\ ecancel' = TRUE
  /\ UNCHANGED <<epc, elock, eonline, eunlocked, eobs, eleft>>
  /\ UNCHANGED <<clockVars, syncVars, cycleVars, trackerVars, fileVars, vaultVars, chunkVars, orderVars, devVars>>

\* the CancelledError reaches the loop where it awaits: in its sleep or at
\* the lock
EngCancelled ==
  /\ ecancel
  /\ epc["auto"] \in {"sleep", "wait"}
  /\ epc' = [epc EXCEPT !["auto"] = LoopAfter("CancelledError")]
  /\ eobs' = [eobs EXCEPT !.outcome = "cancelled"]
  /\ UNCHANGED <<elock, eonline, eunlocked, ecancel, eleft>>
  /\ UNCHANGED <<clockVars, syncVars, cycleVars, trackerVars, fileVars, vaultVars, chunkVars, orderVars, devVars>>

\* the vault is locked (lock(), the session timeout) or unlocked
EngVault ==
  /\ eleft.flips > 0
  /\ eleft' = [eleft EXCEPT !.flips = @ - 1]
  /\ eunlocked' = ~eunlocked
  /\ UNCHANGED <<epc, elock, eonline, ecancel, eobs>>
  /\ UNCHANGED <<clockVars, syncVars, cycleVars, trackerVars, fileVars, vaultVars, chunkVars, orderVars, devVars>>

\* POST /api/sync/initial-clone on its worker thread: initial_clone checks
\* the vault and calls protocol.pull
EngCloneCall ==
  /\ epc["clone"] = "idle"
  /\ eleft.calls["clone"] > 0
  /\ eleft' = [eleft EXCEPT !.calls["clone"] = @ - 1]
  /\ epc' = [epc EXCEPT !["clone"] = IF eunlocked THEN "pull" ELSE "idle"]
  /\ UNCHANGED <<elock, eonline, eunlocked, ecancel, eobs>>
  /\ UNCHANGED <<clockVars, syncVars, cycleVars, trackerVars, fileVars, vaultVars, chunkVars, orderVars, devVars>>

\* initial_clone's pull has returned or raised
EngCloneEnd ==
  /\ epc["clone"] = "pull"
  /\ epc' = [epc EXCEPT !["clone"] = "idle"]
  /\ UNCHANGED <<elock, eonline, eunlocked, ecancel, eobs, eleft>>
  /\ UNCHANGED <<clockVars, syncVars, cycleVars, trackerVars, fileVars, vaultVars, chunkVars, orderVars, devVars>>

InitEngine ==
  /\ ClockGroupInit
  /\ SyncInitWith([d \in Devices |-> 0])
  /\ CycleGroupInit
  /\ TrackerGroupInit
  /\ FileInitWith([f \in Paths |-> NoFile], 0)
  /\ VaultInitWith(0)
  /\ ChunkInitWith(<<>>, "off")
  /\ OrderInitWith(NoTs, NoTs)
  /\ EngInitWith("sleep", MaxEngTicks, MaxEngCalls, MaxEngFlips)
  /\ DevInitWith({}, "off", 0, 0)

NextEngine ==
  \/ EngRestCall \/ EngSetOnline \/ EngAutoWake \/ EngAcquire \/ EngStep
  \/ EngReturn \/ EngRaise \/ EngCancel \/ EngCancelled \/ EngVault
  \/ EngCloneCall \/ EngCloneEnd

SpecEngine == InitEngine /\ [][NextEngine]_vars

\* C22: at most one caller is between acquiring and releasing the sync
\* lock, that caller holds the lock, and no caller starts its push while
\* another is in its file scan, push or pull.
OneSyncAtATime ==
  /\ \A t \in SyncCallers, u \in SyncCallers : (InBody(t) /\ InBody(u)) => t = u
  /\ \A t \in SyncCallers : InBody(t) => elock = t

\* C22 witness: one caller is in its pull while another waits for the lock.
OneSyncWitness ==
  \E t \in SyncCallers, u \in SyncCallers :
    /\ t # u
    /\ epc[t] = "pull"
    /\ epc[u] = "wait"

\* C25: at each wake-up the loop calls sync_now exactly when the engine is
\* online and the vault unlocked; after an exception of sync_now the loop
\* sleeps again and decides anew at the next wake-up; the loop has ended
\* only if it was cancelled.
AutoLoopKeepsRunning ==
  /\ eobs.decided => (eobs.called <=> (eobs.online /\ eobs.unlocked))
  /\ eobs.outcome = "raised" => epc["auto"] \in {"sleep", "wait", "track", "push", "pull"}
  /\ epc["auto"] = "done" => (ecancel /\ eobs.outcome = "cancelled")

\* C25 witness: after an exception of sync_now the loop woke up again and
\* called sync_now again.
AutoLoopWitness ==
  /\ eobs.retried
  /\ eobs.called
  /\ epc["auto"] = "push"

\* C29: while initial_clone is in its pull, no sync_now cycle is in its
\* push or pull.
CloneNeverOverlapsSync ==
  epc["clone"] = "pull" => \A t \in SyncCallers : epc[t] \notin {"push", "pull"}

(***************************************************************************)
(* SpecDevices: the sync_devices table of one local store.  initialize()   *)
(* is called at start-up when sync is enabled (main.py) and by the setup   *)
(* route when the engine is not initialized (sync_routes.py); the route    *)
(* is a plain def, so two requests run on two worker threads.  A thread    *)
(* stands at "idle", "queried" (it found no current Device and has not     *)
(* yet inserted one), or "done".  remove_device, push and pull are whole   *)
(* calls.                                                                  *)
(***************************************************************************)
DeviceRow(id, current) == [id |-> id, is_current |-> current, synced |-> FALSE]

\* db.query(Device).filter_by(is_current=True)
CurrentRows(rows) == { r \in rows : r.is_current }

\* str(uuid.uuid4()): the id of the next draw
FreshDeviceId(left) == IF left = 2 THEN "d1" ELSE IF left = 1 THEN "d2" ELSE "d3"

\* the remove_device route: the HTTP status, the rows and the bucket's
\* device prefixes after the call
RemoveDevice(rows, bucket, id, cloudFails) ==
  LET found == { r \in rows : r.id = id }
  IN  IF found = {} \/ (\E r \in found : r.is_current)
        THEN [status |-> 404, rows |-> rows, cloud |-> bucket]
        ELSE [status |-> 200, rows |-> rows \ found,
              cloud |-> IF cloudFails THEN bucket ELSE bucket \ {id}]

\* pull lines 166-177: last_sync_at of the peers' rows and of the own row
PullTouches(rows, bucket, own) ==
  { IF r.id \in bucket \cup {own} THEN [r EXCEPT !.synced = TRUE] ELSE r : r \in rows }

\* the setup route's check of is_initialized and initialize() lines 55-61:
\* the query; a current Device is loaded.  The start-up call runs before
\* any request is served.
DevQuery ==
  /\ \E t \in InitThreads :
       /\ dthr[t] = "idle"
       /\ t # "startup" => (dthr["startup"] \in {"off", "done"} /\ ~dinit)
       /\ IF CurrentRows(drows) # {}
          THEN /\ \E r \in CurrentRows(drows) : ddev' = r.id
               /\ dinit' = TRUE
               /\ dthr' = [dthr EXCEPT ![t] = "done"]
          ELSE /\ dthr' = [dthr EXCEPT ![t] = "queried"]
               /\ UNCHANGED <<ddev, dinit>>
  /\ UNCHANGED <<drows, dcloud, dcall, dleft>>
  /\ UNCHANGED <<clockVars, syncVars, cycleVars, trackerVars, fileVars, vaultVars, chunkVars, orderVars, engVars>>

\* initialize() lines 62-91: the Device row is created and committed
DevCreate ==
  /\ \E t \in InitThreads :
       /\ dthr[t] = "queried"
       /\ dleft.ids > 0
       /\ dleft' = [dleft EXCEPT !.ids = @ - 1]
       /\ drows' = drows \cup {DeviceRow(FreshDeviceId(dleft.ids), TRUE)}
       /\ ddev' = FreshDeviceId(dleft.ids)
       /\ dinit' = TRUE
       /\ dthr' = [dthr EXCEPT ![t] = "done"]
  /\ UNCHANGED <<dcloud, dcall>>
  /\ UNCHANGED <<clockVars, syncVars, cycleVars, trackerVars, fileVars, vaultVars, chunkVars, orderVars, engVars>>

\* DELETE /api/sync/device/{id}
DevRemove ==
  /\ dinit
  /\ dleft.calls > 0
  /\ dleft' = [dleft EXCEPT !.calls = @ - 1]
  /\ \E id \in {r.id : r \in drows} \cup dcloud, cloudFails \in BOOLEAN :
       LET r == RemoveDevice(drows, dcloud, id, cloudFails)
       IN  /\ drows' = r.rows
           /\ dcloud' = r.cloud
           /\ dcall' = [id |-> id, status |-> r.status, rows |-> drows,
                        cloud |-> dcloud, rowsAfter |-> r.rows,
                        cloudAfter |-> r.cloud]
  /\ UNCHANGED <<dinit, ddev, dthr>>
  /\ UNCHANGED <<clockVars, syncVars, cycleVars, trackerVars, fileVars, vaultVars, chunkVars, orderVars, engVars>>

\* a sync cycle: push uploads under the engine's device id, pull stamps
\* last_sync_at
DevSync ==
  /\ dinit
  /\ dleft.calls > 0
  /\ dleft' = [dleft EXCEPT !.calls = @ - 1]
  /\ dcloud' = dcloud \cup {ddev}
  /\ drows' = PullTouches(drows, dcloud, ddev)
  /\ UNCHANGED <<dinit, ddev, dthr, dcall>>
  /\ UNCHANGED <<clockVars, syncVars, cycleVars, trackerVars, fileVars, vaultVars, chunkVars, orderVars, engVars>>

InitDevices ==
  /\ ClockGroupInit
  /\ SyncInitWith([d \in Devices |-> 0])
  /\ CycleGroupInit
  /\ TrackerGroupInit
  /\ FileInitWith([f \in Paths |-> NoFile], 0)
  /\ VaultInitWith(0)
  /\ ChunkInitWith(<<>>, "off")
  /\ OrderInitWith(NoTs, NoTs)
  /\ EngInitWith("off", 0, 0, 0)
  /\ \E rows \in {{}, {DeviceRow("d0", TRUE)}}, startupPc \in {"off", "idle"} :
       DevInitWith(rows, startupPc, MaxDeviceIds, MaxDevCalls)

NextDevices == DevQuery \/ DevCreate \/ DevRemove \/ DevSync

SpecDevices == InitDevices /\ [][NextDevices]_vars

\* C23: once initialize() has completed, exactly one Device row has
\* is_current = true.
ExactlyOneCurrent ==
  dinit => Cardinality(CurrentRows(drows)) = 1

\* C24: remove_device with the current device's id is answered 400 and
\* changes neither the Device rows nor the bucket; with the id of another
\* known device (one with a Device row or with batches in the bucket) it
\* is answered 200, and that device's row and batches are gone.
RemoveDeviceOutcome ==
  dcall.id # "" =>
    LET current == \E r \in dcall.rows : r.id = dcall.id /\ r.is_current
    IN  /\ current => /\ dcall.status = 400
                      /\ dcall.rowsAfter = dcall.rows
                      /\ dcall.cloudAfter = dcall.cloud
        /\ ~current => /\ dcall.status = 200
                       /\ \A r \in dcall.rowsAfter : r.id # dcall.id
                       /\ dcall.id \notin dcall.cloudAfter

(***************************************************************************)
(* SpecMesh: three devices on one bucket.  The devices of Devices write    *)
(* rows and run whole sync cycles as in SpecSync; a third device only      *)
(* syncs, so that it holds no local entry when it pulls its peers'         *)
(* batches, one peer after the other in list_devices order.                *)
(***************************************************************************)
Reader == "C"

MeshDevices == Devices \cup {Reader}

MeshInitWith(ops) ==
  /\ store = [d \in MeshDevices |-> EmptyStore]
  /\ changelog = [d \in MeshDevices |-> {}]
  /\ hlc = [d \in MeshDevices |-> ClockInit]
  /\ syncState = [d \in MeshDevices |->
                    [last_pushed_hlc |-> NoTs,
                     last_pulled_hlc |-> [p \in MeshDevices |-> NoBatch]]]
  /\ cloud = [d \in MeshDevices |-> {}]
  /\ opsLeft = ops
  /\ applied = [d \in MeshDevices |-> [p \in MeshDevices |-> {}]]
  /\ applyLog = {}

MeshInsert ==
  /\ \E d \in Devices : LocalInsertOn(d, SyncReadings)
  /\ UNCHANGED <<clockVars, cycleVars, trackerVars, restVars>>

MeshUpdate ==
  /\ \E d \in Devices : LocalUpdateOn(d, SyncReadings, (SUBSET Cols) \ {{}})
  /\ UNCHANGED <<clockVars, cycleVars, trackerVars, restVars>>

MeshDelete ==
  /\ \E d \in Devices : LocalDeleteOn(d, SyncReadings)
  /\ UNCHANGED <<clockVars, cycleVars, trackerVars, restVars>>

\* sync_now on any of the three devices
MeshSync ==
  /\ \E d \in MeshDevices, phys \in SyncReadings, r \in SyncRands :
       SyncPush(d, phys, r,
                OrderByHlc(Unpushed(changelog[d], d, syncState[d].last_pushed_hlc)))
  /\ UNCHANGED <<clockVars, cycleVars, trackerVars, restVars>>

InitMesh ==
  /\ ClockGroupInit
  /\ \E ops \in [MeshDevices -> 0..MaxMeshOps] :
       /\ ops[Reader] = 0
       /\ ops[Engine] + ops[Peer] = MaxMeshOps
       /\ MeshInitWith(ops)
  /\ CycleGroupInit
  /\ TrackerGroupInit
  /\ RestGroupInit

NextMesh == MeshInsert \/ MeshUpdate \/ MeshDelete \/ MeshSync

SpecMesh == InitMesh /\ [][NextMesh]_vars

\* the entries of all devices that wrote column c of row id
WritersOf(id, c) ==
  { e \in UNION { changelog[d] : d \in MeshDevices } :
      e.entity_id = id /\ c \in DOMAIN e.changed_fields }

\* device d has applied every batch of every peer, and every peer has
\* uploaded every entry
PulledEverything(d) ==
  /\ \A p \in MeshDevices : AllPushed(p)
  /\ \A p \in MeshDevices \ {d} : PulledAll(d, p)

\* C28: on a device that has pulled every batch of every peer, each column
\* of each surviving row holds the value written by the entry with the
\* greatest HLC among the entries of all devices that wrote that column.
LastWriterWins ==
  \A d \in MeshDevices, id \in EntityIds, c \in Cols :
    (PulledEverything(d) /\ store[d][id].present) =>
      \A e \in WritersOf(id, c) :
        HlcGe(store[d][id].cols[c], e.changed_fields[c])

(***************************************************************************)
(* SpecPush: the engine's sync cycles of SpecCycle, its writers and its    *)
(* peer, across restarts of the process.  The database file keeps the      *)
(* rows, the changelog and the watermark; initialize() builds a new clock. *)
(* A writer's flush stamps its entries while it holds SQLite's write lock  *)
(* and keeps the lock until it commits, so local entries commit in the     *)
(* order of their stamps and a writer's transaction is one step.           *)
(***************************************************************************)
\* the process ends and starts again: HybridLogicalClock.__init__ through
\* initialize(); a running cycle is gone with its session.  A restart is
\* counted among the faults of a behaviour.
EngineRestart ==
  /\ faultsLeft > 0
  /\ faultsLeft' = faultsLeft - 1
  /\ hlc[Engine] # ClockInit
  /\ hlc' = [hlc EXCEPT ![Engine] = ClockInit]
  /\ pc' = "idle"
  /\ cyc' = IdleCyc
  /\ sess' = NoSess
  /\ obs' = InitObs
  /\ UNCHANGED <<store, changelog, syncState, cloud, opsLeft, applied, applyLog>>
  /\ UNCHANGED <<clockVars, trackerVars, restVars>>

InitPush == InitCycle

NextPush == NextCycle \/ EngineRestart

SpecPush == InitPush /\ [][NextPush]_vars

\* the push query would not select e: its hlc string is not greater than
\* the committed watermark
BehindWatermark(e) ==
  /\ syncState[Engine].last_pushed_hlc # NoTs
  /\ ~StrGt(HlcStr(e.hlc_timestamp), HlcStr(syncState[Engine].last_pushed_hlc))

\* C30: no committed entry of the local device is left behind the
\* watermark: an entry the push query no longer selects is in an uploaded
\* batch.
NoEntryLeftBehind ==
  \A e \in changelog[Engine] :
    (e.device_id = Engine /\ BehindWatermark(e)) => InCloud(e, Engine)

====
